---- MODULE Spec2Model ----
(***************************************************************************)
(* Model of the XML/XSLT invoice pipeline of xslt-generator:               *)
(*   helpers/xml.ts            variableToXml, objectToXml, listToXml,      *)
(*                             transformXml                                *)
(*   lib/invoice-generator     generateInvoiceHtml                         *)
(*   pages/invoice-preview     handleSetHtml                               *)
(*                                                                         *)
(* A JavaScript string is a sequence of one-character strings, so that     *)
(* template literals are concatenations and markup can be inspected        *)
(* character by character.                                                 *)
(***************************************************************************)
EXTENDS Integers, Sequences, FiniteSets, TLC

VARIABLES
    serOp,      \* serializer run: the operation that is called
    serArg,     \* serializer run: its arguments
    serOut,     \* serializer run: its completion, once it has been called
    clock,      \* the instant new Date() returns
    sheets,     \* the text the server holds at each stylesheet path
    calls,      \* the calls of generateInvoiceHtml, in the order they were made
    fetchLog,   \* what the network, the clock and the platform did to each call:
                \* the request fetch issued, the text served, the fault raised
    html,       \* the html state of InvoicePreviewPage
    isPrinting, \* the isPrinting state of InvoicePreviewPage
    printJob,   \* the print the Print button started: "idle" when there is none,
                \* "content" while react-to-print prepares the content,
                \* "printing" from onBeforePrint until onAfterPrint
    errors,     \* query examples: the error state of the query hook and of each
                \* mutation hook, 0 for none, else the request that failed
    abortLog,   \* useAbortableMutation: the latest call of abort(), what it was
                \* given and the request the ref held (0: none)
    example,    \* the request example on screen: "axios", "fetch" or "none"
    mounted,    \* whether the example component is mounted
    requests,   \* the requests the example has started, in the order of their start
    cancelToken,\* cancelToken.current / abortController.current: 0 for null, else
                \* the request whose source or controller the ref holds
    posts,      \* the posts state of the example
    loading     \* the loading state of the example

serVars  == <<serOp, serArg, serOut>>
pipeVars == <<clock, sheets, calls, fetchLog, html>>
exVars   == <<example, mounted, requests, cancelToken, posts, loading>>
printVars == <<isPrinting, printJob>>
queryVars == <<errors, abortLog>>
vars     == <<serOp, serArg, serOut, clock, sheets, calls, fetchLog, html,
              example, mounted, requests, cancelToken, posts, loading,
              isPrinting, printJob, errors, abortLog>>

(***************************************************************************)
(* Bounds of the model                                                     *)
(***************************************************************************)
MaxItems == 2       \* longest list handed to listToXml
MaxCalls == 2       \* calls of generateInvoiceHtml in one run
MaxClock == 1       \* last instant of the clock
MaxRequests == 3    \* requests an example component starts in one run

(***************************************************************************)
(* Strings                                                                 *)
(***************************************************************************)
RECURSIVE Join(_, _)
\* Array.prototype.join(sep) of an array of strings
Join(arr, sep) ==
    IF arr = <<>> THEN <<>>
    ELSE IF Len(arr) = 1 THEN arr[1]
    ELSE arr[1] \o sep \o Join(Tail(arr), sep)

\* `${array}` in a template literal: Array.prototype.toString, join(",")
ArrayToString(arr) == Join(arr, <<",">>)

NL == "\n"
SP == " "

\* a line break followed by n spaces of source indentation
Indent(n) == <<NL>> \o [i \in 1..n |-> SP]

Digit(d) == CASE d = 0 -> "0" [] d = 1 -> "1" [] d = 2 -> "2" [] d = 3 -> "3"
              [] d = 4 -> "4" [] d = 5 -> "5" [] d = 6 -> "6" [] d = 7 -> "7"
              [] d = 8 -> "8" [] d = 9 -> "9"

RECURSIVE Decimal(_)
\* Number::toString of a non-negative integer
Decimal(n) == IF n < 10 THEN <<Digit(n)>> ELSE Decimal(n \div 10) \o <<Digit(n % 10)>>

(***************************************************************************)
(* Values of a BaseXmlItem: string | number | boolean  (types/index.ts)    *)
(***************************************************************************)
Str(s)  == [kind |-> "string",  s |-> s,    n |-> 0, b |-> FALSE]
Num(n)  == [kind |-> "number",  s |-> <<>>, n |-> n, b |-> FALSE]
Bool(b) == [kind |-> "boolean", s |-> <<>>, n |-> 0, b |-> b]

\* completion of a JavaScript evaluation: a value, or a thrown error
Normal(v)   == [type |-> "normal", value |-> v,    error |-> "none"]
Throw(e)    == [type |-> "throw",  value |-> <<>>, error |-> e]
\* no completion yet: the call has not been made, or has not ended
NotCalled   == [type |-> "pending", value |-> <<>>, error |-> "none"]

\* a variant of StringOf that escapes & and <, as a hardened serializer would
Escape(c) == CASE c = "&" -> <<"&", "a", "m", "p", ";">>
               [] c = "<" -> <<"&", "l", "t", ";">>
               [] OTHER   -> <<c>>

StringOfMutEscaped(v) ==
    LET t == CASE v.kind = "string"  -> v.s
               [] v.kind = "number"  -> IF v.n < 0 THEN <<"-">> \o Decimal(0 - v.n)
                                                   ELSE Decimal(v.n)
               [] v.kind = "boolean" -> IF v.b THEN <<"t", "r", "u", "e">>
                                               ELSE <<"f", "a", "l", "s", "e">>
    IN  Join([i \in 1..Len(t) |-> Escape(t[i])], <<>>)

\* `${value}` in a template literal: the abstract operation ToString(value)
StringOf(v) ==
    CASE v.kind = "string"  -> v.s
      [] v.kind = "number"  -> IF v.n < 0 THEN <<"-">> \o Decimal(0 - v.n) ELSE Decimal(v.n)
      [] v.kind = "boolean" -> IF v.b THEN <<"t", "r", "u", "e">>
                                      ELSE <<"f", "a", "l", "s", "e">>

Entry(k, v) == [key |-> k, value |-> v]

(***************************************************************************)
(* helpers/xml.ts: the serializer                                          *)
(***************************************************************************)
\* ([key, value]) => `<${key}>${value}</${key}>`
Element(name, value) ==
    <<"<">> \o name \o <<">">> \o StringOf(value) \o <<"<", "/">> \o name \o <<">">>

\* Object.entries(obj).map(([key, value]) => `<${key}>${value}</${key}>`)
EntriesToElements(obj) == [j \in 1..Len(obj) |-> Element(obj[j].key, obj[j].value)]

\* a variant of variableToXml that rejects values holding a reserved character
variableToXmlMutThrows(name, value) ==
    IF \E i \in 1..Len(StringOf(value)) : StringOf(value)[i] \in {"<", "&"}
    THEN Throw("ValidationError")
    ELSE Normal(<<"<">> \o name \o <<">">> \o StringOf(value)
                  \o <<"<", "/">> \o name \o <<">">>)

\* a variant of variableToXml whose closing tag lacks its slash
variableToXmlMutNoSlash(name, value) ==
    Normal(<<"<">> \o name \o <<">">> \o StringOf(value) \o <<"<">> \o name \o <<">">>)

\* `<${name}>${value}</${name}>`
variableToXml(name, value) ==
    Normal(<<"<">> \o name \o <<">">> \o StringOf(value)
             \o <<"<", "/">> \o name \o <<">">>)

\* a variant of objectToXml that writes the entries last to first
objectToXmlMutReversed(tagName, obj) ==
    Normal(<<"<">> \o tagName \o <<">">> \o Indent(4)
             \o ArrayToString([j \in 1..Len(obj) |->
                    EntriesToElements(obj)[Len(obj) + 1 - j]])
             \o Indent(2) \o <<"<", "/">> \o tagName \o <<">">>)

objectToXml(tagName, obj) ==
    Normal(<<"<">> \o tagName \o <<">">> \o Indent(4)
             \o ArrayToString(EntriesToElements(obj))
             \o Indent(2) \o <<"<", "/">> \o tagName \o <<">">>)

\* (item) => `<${itemName}> ... </${itemName}>`
ItemBlock(itemName, item) ==
    <<"<">> \o itemName \o <<">">> \o Indent(12)
      \o ArrayToString(EntriesToElements(item))
      \o Indent(8) \o <<"<", "/">> \o itemName \o <<">">>

\* a variant of listToXml that leaves out .join(""): the blocks get commas
\* between them
listToXmlMutJoinComma(tagName, itemName, items) ==
    Normal(<<"<">> \o tagName \o <<">">>
             \o ArrayToString([k \in 1..Len(items) |-> ItemBlock(itemName, items[k])])
             \o <<"<", "/">> \o tagName \o <<">">>)

\* a variant of listToXml that writes the items last to first
listToXmlMutReversed(tagName, itemName, items) ==
    Normal(<<"<">> \o tagName \o <<">">>
             \o Join([k \in 1..Len(items) |-> ItemBlock(itemName, items[Len(items) + 1 - k])], <<>>)
             \o <<"<", "/">> \o tagName \o <<">">>)

listToXml(tagName, itemName, items) ==
    Normal(<<"<">> \o tagName \o <<">">>
             \o Join([k \in 1..Len(items) |-> ItemBlock(itemName, items[k])], <<>>)
             \o <<"<", "/">> \o tagName \o <<">">>)

(***************************************************************************)
(* helpers/date.ts and helpers/currency.ts                                 *)
(***************************************************************************)
\* Intl.DateTimeFormat("en-US", {dateStyle: "full", timeStyle: "long"}).format(date):
\* the text of instant t, different for different instants
getFormattedDate(t) == <<"D", "a", "y", " ">> \o Decimal(t)

\* getFormattedDate(new Date()), the clock read at the call
getNow(now) == getFormattedDate(now)

\* Intl.NumberFormat("en-US", {style: "currency", currency: "USD"}).format(amount)
getFormattedCurrency(amount) ==
    <<"$">> \o (IF amount >= 1000
                THEN Decimal(amount \div 1000) \o <<",">>
                       \o Decimal((amount % 1000) \div 100)
                       \o Decimal((amount % 100) \div 10) \o Decimal(amount % 10)
                ELSE Decimal(amount))
            \o <<".", "0", "0">>

(***************************************************************************)
(* Element and field names written in the source                           *)
(***************************************************************************)
K_createDate == <<"c", "r", "e", "a", "t", "e", "D", "a", "t", "e">>
K_companyInfo == <<"c", "o", "m", "p", "a", "n", "y", "I", "n", "f", "o">>
K_clientInfo == <<"c", "l", "i", "e", "n", "t", "I", "n", "f", "o">>
K_headerInfo == <<"h", "e", "a", "d", "e", "r", "I", "n", "f", "o">>
K_invoiceInfo == <<"i", "n", "v", "o", "i", "c", "e", "I", "n", "f", "o">>
K_invoiceItems == <<"i", "n", "v", "o", "i", "c", "e", "I", "t", "e", "m", "s">>
K_invoiceItem == <<"i", "n", "v", "o", "i", "c", "e", "I", "t", "e", "m">>
K_Invoices == <<"I", "n", "v", "o", "i", "c", "e", "s">>
K_Invoice == <<"I", "n", "v", "o", "i", "c", "e">>
K_id == <<"i", "d">>
K_name == <<"n", "a", "m", "e">>
K_description == <<"d", "e", "s", "c", "r", "i", "p", "t", "i", "o", "n">>
K_quantity == <<"q", "u", "a", "n", "t", "i", "t", "y">>
K_basePrice == <<"b", "a", "s", "e", "P", "r", "i", "c", "e">>
K_price == <<"p", "r", "i", "c", "e">>
K_total == <<"t", "o", "t", "a", "l">>
K_totalNumber == <<"t", "o", "t", "a", "l", "N", "u", "m", "b", "e", "r">>
K_companyName == <<"c", "o", "m", "p", "a", "n", "y", "N", "a", "m", "e">>
K_companyAddress == <<"c", "o", "m", "p", "a", "n", "y", "A", "d", "d", "r", "e", "s", "s">>
K_companyCity == <<"c", "o", "m", "p", "a", "n", "y", "C", "i", "t", "y">>
K_companyState == <<"c", "o", "m", "p", "a", "n", "y", "S", "t", "a", "t", "e">>
K_companyZip == <<"c", "o", "m", "p", "a", "n", "y", "Z", "i", "p">>
K_address == <<"a", "d", "d", "r", "e", "s", "s">>
K_email == <<"e", "m", "a", "i", "l">>
K_phone == <<"p", "h", "o", "n", "e">>
K_clientCity == <<"c", "l", "i", "e", "n", "t", "C", "i", "t", "y">>
K_clientState == <<"c", "l", "i", "e", "n", "t", "S", "t", "a", "t", "e">>
K_clientZip == <<"c", "l", "i", "e", "n", "t", "Z", "i", "p">>
K_invoiceNumber == <<"i", "n", "v", "o", "i", "c", "e", "N", "u", "m", "b", "e", "r">>
K_invoiceDate == <<"i", "n", "v", "o", "i", "c", "e", "D", "a", "t", "e">>
K_dueDate == <<"d", "u", "e", "D", "a", "t", "e">>
K_terms == <<"t", "e", "r", "m", "s">>
K_logo == <<"l", "o", "g", "o">>
K_website == <<"w", "e", "b", "s", "i", "t", "e">>
K_city == <<"c", "i", "t", "y">>
K_taxId == <<"t", "a", "x", "I", "d">>

(***************************************************************************)
(* lib/mocks: the faker data of one click.  What faker draws is modelled   *)
(* as a function of a seed s; item k of a list gets its own id.            *)
(***************************************************************************)
Seeds == {1, 2}

InvoiceItemCount == 5

Fake(letter, s) == Str(<<letter>> \o Decimal(s))

generateInvoiceList(length, s) ==
    [k \in 1..length |->
        << Entry(K_id, Str(<<"u">> \o Decimal(s) \o <<"-">> \o Decimal(k))),
           Entry(K_name, Fake("N", s + k)),
           Entry(K_description, Fake("P", s + k)),
           Entry(K_quantity, Num(k)),
           Entry(K_basePrice, Num(100 * s + k)),
           Entry(K_price, Str(getFormattedCurrency(200 * k))),
           Entry(K_total, Str(getFormattedCurrency(7 * s + k))),
           Entry(K_totalNumber, Num(10 * k + s)) >>]

generateCompanyInfo(s) ==
    << Entry(K_companyName, Fake("C", s)),
       Entry(K_companyAddress, Fake("A", s)),
       Entry(K_companyCity, Fake("Y", s)),
       Entry(K_companyState, Fake("S", s)),
       Entry(K_companyZip, Fake("Z", s)) >>

generateClientInfo(s) ==
    << Entry(K_name, Fake("c", s)),
       Entry(K_address, Fake("a", s)),
       Entry(K_email, Fake("e", s)),
       Entry(K_phone, Fake("p", s)),
       Entry(K_clientCity, Fake("y", s)),
       Entry(K_clientState, Fake("s", s)),
       Entry(K_clientZip, Fake("z", s)) >>

generateInvoiceInfo(s) ==
    << Entry(K_invoiceNumber, Fake("I", s)),
       Entry(K_invoiceDate, Fake("d", s)),
       Entry(K_dueDate, Fake("f", s)),
       Entry(K_terms, Fake("w", s)),
       Entry(K_total, Str(getFormattedCurrency(1000 * s))) >>

\* a variant of generateHeader without the logo
generateHeaderMutNoLogo(s) ==
    << Entry(K_companyName, Fake("H", s)),
       Entry(K_website, Fake("o", s)),
       Entry(K_email, Fake("m", s)),
       Entry(K_phone, Fake("t", s)),
       Entry(K_address, Fake("r", s)),
       Entry(K_city, Fake("i", s)),
       Entry(K_taxId, Fake("x", s)) >>

generateHeader(s) ==
    << Entry(K_logo, Fake("L", s)),
       Entry(K_companyName, Fake("H", s)),
       Entry(K_website, Fake("o", s)),
       Entry(K_email, Fake("m", s)),
       Entry(K_phone, Fake("t", s)),
       Entry(K_address, Fake("r", s)),
       Entry(K_city, Fake("i", s)),
       Entry(K_taxId, Fake("x", s)) >>

(***************************************************************************)
(* pages/invoice-preview/page.tsx: the xmlString of handleSetHtml          *)
(***************************************************************************)
\* a variant of the Invoice block with clientInfo before companyInfo
InvoiceElementMutClientFirst(now, companyInfo, clientInfo, headerInfo, invoiceInfo, list) ==
    <<"<">> \o K_Invoice \o <<">">>
      \o Indent(16) \o variableToXml(K_createDate, Str(now)).value
      \o Indent(16) \o objectToXml(K_clientInfo, clientInfo).value
      \o Indent(16) \o objectToXml(K_companyInfo, companyInfo).value
      \o Indent(16) \o objectToXml(K_headerInfo, headerInfo).value
      \o Indent(16) \o objectToXml(K_invoiceInfo, invoiceInfo).value
      \o Indent(16) \o listToXml(K_invoiceItems, K_invoiceItem, list).value
      \o Indent(12) \o <<"<", "/">> \o K_Invoice \o <<">">>

\* one <Invoice> ... </Invoice> of the template, from its six values
InvoiceElement(now, companyInfo, clientInfo, headerInfo, invoiceInfo, list) ==
    <<"<">> \o K_Invoice \o <<">">>
      \o Indent(16) \o variableToXml(K_createDate, Str(now)).value
      \o Indent(16) \o objectToXml(K_companyInfo, companyInfo).value
      \o Indent(16) \o objectToXml(K_clientInfo, clientInfo).value
      \o Indent(16) \o objectToXml(K_headerInfo, headerInfo).value
      \o Indent(16) \o objectToXml(K_invoiceInfo, invoiceInfo).value
      \o Indent(16) \o listToXml(K_invoiceItems, K_invoiceItem, list).value
      \o Indent(12) \o <<"<", "/">> \o K_Invoice \o <<">">>

\* a variant of the template whose second Invoice lists the items last to first
xmlStringMutSecondReversed(s, now) ==
    LET list == generateInvoiceList(InvoiceItemCount, s)
        companyInfo == generateCompanyInfo(s)
        clientInfo == generateClientInfo(s)
        invoiceInfo == generateInvoiceInfo(s)
        headerInfo == generateHeader(s)
    IN  Indent(8) \o <<"<">> \o K_Invoices \o <<">">>
          \o Indent(12)
          \o InvoiceElement(now, companyInfo, clientInfo, headerInfo, invoiceInfo, list)
          \o Indent(12)
          \o InvoiceElement(now, companyInfo, clientInfo, headerInfo, invoiceInfo,
                            [k \in 1..Len(list) |-> list[Len(list) + 1 - k]])
          \o Indent(8) \o <<"<", "/">> \o K_Invoices \o <<">">>
          \o Indent(4)

\* the template literal of handleSetHtml, from the data generated for the
\* click (seed s) and the text of the current instant
xmlString(s, now) ==
    LET list == generateInvoiceList(InvoiceItemCount, s)
        companyInfo == generateCompanyInfo(s)
        clientInfo == generateClientInfo(s)
        invoiceInfo == generateInvoiceInfo(s)
        headerInfo == generateHeader(s)
    IN  Indent(8) \o <<"<">> \o K_Invoices \o <<">">>
          \o Indent(12)
          \o InvoiceElement(now, companyInfo, clientInfo, headerInfo, invoiceInfo, list)
          \o Indent(12)
          \o InvoiceElement(now, companyInfo, clientInfo, headerInfo, invoiceInfo, list)
          \o Indent(8) \o <<"<", "/">> \o K_Invoices \o <<">">>
          \o Indent(4)

(***************************************************************************)
(* helpers/xml.ts: transformXml.  The DOMParser, the XSLTProcessor and the *)
(* XMLSerializer are the browser's: a parse keeps the text and marks a     *)
(* parser error, the processor keeps the parameters set on it, and the     *)
(* serialized result stands for what the stylesheet makes of the document  *)
(* under those parameters.                                                 *)
(***************************************************************************)
Count(s, c) == Cardinality({i \in 1..Len(s) : s[i] = c})

\* the positions of s that hold c with a character of next right after them
\* (follows = TRUE) or with any other character after them (follows = FALSE)
CountPair(s, c, next, follows) ==
    Cardinality({i \in 1..(Len(s) - 1) : s[i] = c /\ ((s[i + 1] \in next) <=> follows)})

\* DOMParser.parseFromString(text, "application/xml"): never throws, a
\* malformed text gives a document that holds a parsererror: an empty text, a
\* bare &, a tag that is not closed, start tags and end tags that do not
\* balance
parseFromString(text) ==
    [source |-> text,
     parsererror |-> \/ text = <<>>
                     \/ Count(text, "&") > 0
                     \/ Count(text, "<") # Count(text, ">")
                     \/ CountPair(text, "<", {"/"}, FALSE)
                          # CountPair(text, "<", {"/"}, TRUE) + CountPair(text, "/", {">"}, TRUE)]

\* XSLTProcessor.setParameter(null, key, value) on the parameters ps
setParameter(ps, key, value) ==
    IF \E j \in 1..Len(ps) : ps[j].key = key
    THEN [j \in 1..Len(ps) |-> IF ps[j].key = key THEN Entry(key, value) ELSE ps[j]]
    ELSE Append(ps, Entry(key, value))

RECURSIVE setParameters(_, _)
\* the setParameter calls of a list of bindings, first to last
setParameters(ps, bindings) ==
    IF bindings = <<>> THEN ps
    ELSE setParameters(setParameter(ps, bindings[1].key, bindings[1].value), Tail(bindings))

K_create_date == <<"c", "r", "e", "a", "t", "e", "-", "d", "a", "t", "e">>

\* a variant that sets "create-date" before the entries of params
BindingsMutCallerLast(entries, now) ==
    <<Entry(K_create_date, Str(getFormattedDate(now)))>> \o entries

\* the setParameter calls transformXml makes, in order: one per entry of
\* params, then "create-date" with the formatted current instant
Bindings(entries, now) ==
    entries \o <<Entry(K_create_date, Str(getFormattedDate(now)))>>

PlatformFailures == {"importStylesheet", "transformToDocument", "serializeToString"}

\* one call of the platform made by transformXml: the method, the variable
\* of transformXml it is given, and for setParameter the name that is set
Step(op, of, key) == [op |-> op, of |-> of, key |-> key]

\* the setParameter calls of a list of bindings, first to last
SetSteps(bindings) ==
    [j \in 1..Len(bindings) |-> Step("setParameter", "value", bindings[j].key)]

\* a variant of transformXml that sets the entries of params only after the
\* transformation has been applied
transformXmlMutParamsAfterApply(xsltString, xmlStr, params, now, failAt) ==
    LET xsltDoc == parseFromString(xsltString)
        xmlDoc  == parseFromString(xmlStr)
        entries == IF params.defined THEN params.entries ELSE <<>>
        own     == <<Entry(K_create_date, Str(getFormattedDate(now)))>>
        bound   == setParameters(<<>>, own)
        t1 == <<Step("parseFromString", "xsltString", <<>>),
                Step("parseFromString", "xmlString", <<>>),
                Step("importStylesheet", "xsltDoc", <<>>)>>
        t2 == t1 \o SetSteps(own)
                 \o <<Step("transformToDocument", "xmlDoc", <<>>)>>
                 \o SetSteps(entries)
        t3 == t2 \o <<Step("serializeToString", "resultDocument", <<>>)>>
    IN  CASE failAt = "importStylesheet" ->
               [completion |-> Throw(failAt), trace |-> t1, applied |-> <<>>]
          [] failAt = "transformToDocument" ->
               [completion |-> Throw(failAt), trace |-> t2, applied |-> bound]
          [] failAt = "serializeToString" ->
               [completion |-> Throw(failAt), trace |-> t3, applied |-> bound]
          [] OTHER ->
               [completion |-> Normal(<<[xslt |-> xsltDoc, xml |-> xmlDoc, params |-> bound]>>),
                trace |-> t3, applied |-> bound]

\* transformXml(xsltString, xmlString, params) when new Date() is now and the
\* platform fails at failAt ("none": nowhere): its completion, the platform
\* calls made in order, and the parameters on the processor when the
\* stylesheet was applied
transformXml(xsltString, xmlStr, params, now, failAt) ==
    LET xsltDoc == parseFromString(xsltString)
        xmlDoc  == parseFromString(xmlStr)
        entries == IF params.defined THEN params.entries ELSE <<>>
        all     == Bindings(entries, now)
        bound   == setParameters(<<>>, all)
        t1 == <<Step("parseFromString", "xsltString", <<>>),
                Step("parseFromString", "xmlString", <<>>),
                Step("importStylesheet", "xsltDoc", <<>>)>>
        t2 == t1 \o SetSteps(all)
                 \o <<Step("transformToDocument", "xmlDoc", <<>>)>>
        t3 == t2 \o <<Step("serializeToString", "resultDocument", <<>>)>>
    IN  CASE failAt = "importStylesheet" ->
               [completion |-> Throw(failAt), trace |-> t1, applied |-> <<>>]
          [] failAt = "transformToDocument" ->
               [completion |-> Throw(failAt), trace |-> t2, applied |-> bound]
          [] failAt = "serializeToString" ->
               [completion |-> Throw(failAt), trace |-> t3, applied |-> bound]
          [] OTHER ->
               [completion |-> Normal(<<[xslt |-> xsltDoc, xml |-> xmlDoc, params |-> bound]>>),
                trace |-> t3, applied |-> bound]

(***************************************************************************)
(* lib/invoice-generator: generateInvoiceHtml, one record per call         *)
(***************************************************************************)
NoResponse == [ok |-> FALSE, body |-> <<>>]

\* the call as it stands once fetch(xsltPath) has been issued; seed is the
\* faker draw of the click that made it (0: another caller)
NewCall(caller, seed, xsltPath, xmlStr, params) ==
    [caller |-> caller, seed |-> seed, xsltPath |-> xsltPath, xmlString |-> xmlStr, params |-> params,
     pc |-> "fetch", response |-> NoResponse,
     outcome |-> NotCalled, trace |-> <<>>, applied |-> <<>>]

\* a variant that reuses the text an earlier call got from the same path
dataMutCached(cs, i) ==
    IF \E j \in 1..(i - 1) : cs[j].xsltPath = cs[i].xsltPath /\ cs[j].pc = "done"
                               /\ cs[j].response # NoResponse
    THEN cs[CHOOSE j \in 1..(i - 1) : cs[j].xsltPath = cs[i].xsltPath /\ cs[j].pc = "done"
                                        /\ cs[j].response # NoResponse].response.body
    ELSE cs[i].response.body

\* const data = await response.text(): the body of this call's own response
data(cs, i) == cs[i].response.body

\* a variant that catches the rejection and returns empty markup
AwaitRejectedMutDefault(c, e) ==
    [c EXCEPT !.pc = "done", !.outcome = Normal(<<>>)]

\* a variant that retries: on a rejection the call goes back to its fetch
AwaitRejectedMutRetry(c, e) ==
    [c EXCEPT !.pc = "fetch", !.response = NoResponse]

\* an awaited promise rejects with e: nothing in generateInvoiceHtml catches
\* it, so the call rejects with e
AwaitRejected(c, e) ==
    [c EXCEPT !.pc = "done", !.outcome = Throw(e)]

\* a variant in which the calls share one XSLTProcessor: the parameters an
\* earlier call has set are still on it
TransformedMutSharedProcessor(cs, i, now, failAt) ==
    LET prior   == {j \in 1..Len(cs) : j # i /\ cs[j].applied # <<>>}
        carried == IF prior = {} THEN <<>> ELSE cs[CHOOSE j \in prior : TRUE].applied
        own     == IF cs[i].params.defined THEN cs[i].params.entries ELSE <<>>
        r == transformXml(cs[i].response.body, cs[i].xmlString,
                          [defined |-> TRUE, entries |-> carried \o own], now, failAt)
    IN  [cs[i] EXCEPT !.pc = "done", !.outcome = r.completion,
                      !.trace = r.trace, !.applied = r.applied]

\* a variant that checks response.ok and the parse of the stylesheet before
\* it transforms, and raises when either is bad
TransformedMutValidates(cs, i, now, failAt) ==
    LET r == transformXml(cs[i].response.body, cs[i].xmlString, cs[i].params, now, failAt)
    IN  IF ~cs[i].response.ok \/ parseFromString(cs[i].response.body).parsererror
        THEN [cs[i] EXCEPT !.pc = "done", !.outcome = Throw("FetchFailure")]
        ELSE [cs[i] EXCEPT !.pc = "done", !.outcome = r.completion,
                           !.trace = r.trace, !.applied = r.applied]

\* the rest of the call once response.text() has resolved: transformXml is
\* called with the text, and what it returns or throws ends the call
Transformed(cs, i, now, failAt) ==
    LET r == transformXml(data(cs, i), cs[i].xmlString, cs[i].params, now, failAt)
    IN  [cs[i] EXCEPT !.pc = "done", !.outcome = r.completion,
                      !.trace = r.trace, !.applied = r.applied]

(***************************************************************************)
(* The stylesheets the server holds                                        *)
(***************************************************************************)
TestXslt  == "test.xslt"
OtherXslt == "other.xslt"
Paths     == {TestXslt, OtherXslt}

SheetV1    == <<"<", "s", "1", "/", ">">>
SheetV2    == <<"<", "s", "2", "/", ">">>
SheetOther == <<"<", "o", "/", ">">>
ErrorPage  == <<"<", "h", "1", ">", "4", "0", "4">>

InitialSheets == [p \in Paths |-> IF p = TestXslt THEN SheetV1 ELSE SheetOther]

\* InvoicePreviewPage as it is first rendered: useState(false), no print
NoPrint ==
    /\ isPrinting = FALSE
    /\ printJob = "idle"

\* the hooks of the query examples: the posts query and the four mutations
Hooks == {"query", "create", "update", "replace", "delete"}

\* no hook holds an error, abort() has not been called
NoQuery ==
    /\ errors = [h \in Hooks |-> 0]
    /\ abortLog = [given |-> "none", target |-> 0]

\* no request example is on screen
NoExample ==
    /\ example = "none"
    /\ mounted = FALSE
    /\ requests = <<>>
    /\ cancelToken = 0
    /\ posts = <<>>
    /\ loading = FALSE

(***************************************************************************)
(* The serializer run: one call of one serializer operation on an input    *)
(* drawn from the sets below.                                              *)
(***************************************************************************)
field == <<"f", "i", "e", "l", "d">>

Names    == {field, <<"a">>, <<"i", "d">>}
TagNames == {<<"t">>, <<"r", "o", "w", "s">>}
ItemName == <<"r", "o", "w">>
KeyNames == {<<"a">>, <<"i", "d">>}

AllValues == {Str(<<"x">>), Str(<<>>), Str(<<"a", " ", "b">>),
              Str(<<"a", "&">>), Str(<<"<", "b">>),
              Num(0), Num(12), Num(-3), Num(105), Bool(TRUE), Bool(FALSE)}
ObjValues == {Str(<<"x">>), Str(<<"a", "&">>), Str(<<"<", "b">>),
              Num(12), Num(-3), Bool(FALSE)}
ListValues == {Str(<<"x">>), Str(<<"<", "b">>), Num(12)}

\* the records over the given values, as their Object.entries, keys distinct
Objects(values) ==
    {<<>>}
      \cup {<<Entry(k, v)>> : k \in KeyNames, v \in values}
      \cup {<<Entry(k1, v1), Entry(k2, v2)>> :
              <<k1, k2>> \in {kk \in KeyNames \X KeyNames : kk[1] # kk[2]},
              <<v1, v2>> \in values \X values}

RECURSIVE Lists(_, _)
\* the sequences of at most n elements of S
Lists(S, n) ==
    IF n = 0 THEN {<<>>}
    ELSE Lists(S, n - 1) \cup {Append(l, x) : l \in {m \in Lists(S, n - 1) : Len(m) = n - 1}, x \in S}

NoArg == [name |-> <<>>, value |-> Str(<<>>), tagName |-> <<>>, itemName |-> <<>>,
          obj |-> <<>>, items |-> <<>>]


SerInputs ==
    {[NoArg EXCEPT !.name = n, !.value = v] : n \in Names, v \in AllValues}
      \cup {[NoArg EXCEPT !.tagName = t, !.obj = o] : t \in TagNames, o \in Objects(ObjValues)}
      \cup {[NoArg EXCEPT !.tagName = t, !.itemName = ItemName, !.items = l] :
              t \in TagNames, l \in Lists(Objects(ListValues), MaxItems)}

SerOpOf(arg) ==
    IF arg.name # <<>> THEN "variableToXml"
    ELSE IF arg.itemName # <<>> THEN "listToXml"
    ELSE "objectToXml"

SerInit ==
    /\ serArg \in SerInputs
    /\ serOp = SerOpOf(serArg)
    /\ serOut = NotCalled
    /\ clock = 0
    /\ sheets = InitialSheets
    /\ calls = <<>>
    /\ fetchLog = <<>>
    /\ html = <<>>
    /\ NoPrint
    /\ NoQuery
    /\ NoExample

CallVariableToXml ==
    /\ serOp = "variableToXml"
    /\ serOut = NotCalled
    /\ serOut' = variableToXml(serArg.name, serArg.value)
    /\ UNCHANGED <<serOp, serArg, pipeVars, exVars, printVars, queryVars>>

CallObjectToXml ==
    /\ serOp = "objectToXml"
    /\ serOut = NotCalled
    /\ serOut' = objectToXml(serArg.tagName, serArg.obj)
    /\ UNCHANGED <<serOp, serArg, pipeVars, exVars, printVars, queryVars>>

CallListToXml ==
    /\ serOp = "listToXml"
    /\ serOut = NotCalled
    /\ serOut' = listToXml(serArg.tagName, serArg.itemName, serArg.items)
    /\ UNCHANGED <<serOp, serArg, pipeVars, exVars, printVars, queryVars>>

SerNext == CallVariableToXml \/ CallObjectToXml \/ CallListToXml

SerSpec == SerInit /\ [][SerNext]_vars

(***************************************************************************)
(* The pipeline run: clicks on Generate HTML and calls of                  *)
(* generateInvoiceHtml by any other caller, the server and the clock       *)
(***************************************************************************)
Undefined == [defined |-> FALSE, entries |-> <<>>]
Params(entries) == [defined |-> TRUE, entries |-> entries]

IGNORED == <<"I", "G", "N", "O", "R", "E", "D">>
K_lang  == <<"l", "a", "n", "g">>

\* the xsltPath and xmlMockParams a caller passes
CallerInputs ==
    {<<TestXslt, Undefined>>,
     <<OtherXslt, Params(<<Entry(K_create_date, Str(IGNORED))>>)>>,
     <<OtherXslt, Params(<<Entry(K_create_date, Str(getFormattedDate(0))),
                           Entry(K_lang, Str(<<"e", "n">>))>>)>>}

DirectXml == <<"<", "a", "/", ">">>

NewRequest(i, path) ==
    [call |-> i, path |-> path, answered |-> "pending", served |-> <<>>,
     fault |-> "none", at |-> 0]

Init ==
    /\ serOp = "none"
    /\ serArg = NoArg
    /\ serOut = NotCalled
    /\ clock = 0
    /\ sheets = InitialSheets
    /\ calls = <<>>
    /\ fetchLog = <<>>
    /\ html = <<>>
    /\ NoPrint
    /\ NoQuery
    /\ NoExample

\* time passes
Tick ==
    /\ clock < MaxClock
    /\ clock' = clock + 1
    /\ UNCHANGED <<serVars, exVars, printVars, queryVars, sheets, calls, fetchLog, html>>

\* the stylesheet at test.xslt is replaced on the server
EditSheet ==
    /\ sheets' = [sheets EXCEPT ![TestXslt] = IF @ = SheetV1 THEN SheetV2 ELSE SheetV1]
    /\ UNCHANGED <<serVars, exVars, printVars, queryVars, clock, calls, fetchLog, html>>

\* handleSetHtml up to its await: the data is generated, xmlString is built
\* and generateInvoiceHtml({xsltPath: "test.xslt", xmlString}) issues its fetch
handleSetHtml(s) ==
    /\ Len(calls) < MaxCalls
    /\ calls' = Append(calls, NewCall("page", s, TestXslt, xmlString(s, getNow(clock)), Undefined))
    /\ fetchLog' = Append(fetchLog, NewRequest(Len(calls) + 1, TestXslt))
    /\ UNCHANGED <<serVars, exVars, printVars, queryVars, clock, sheets, html>>

\* generateInvoiceHtml({xsltPath, xmlString, xmlMockParams}) by another
\* caller, up to its first await
generateInvoiceHtml(path, params) ==
    /\ Len(calls) < MaxCalls
    /\ calls' = Append(calls, NewCall("direct", 0, path, DirectXml, params))
    /\ fetchLog' = Append(fetchLog, NewRequest(Len(calls) + 1, path))
    /\ UNCHANGED <<serVars, exVars, printVars, queryVars, clock, sheets, html>>

\* a variant of FetchResolve in which calls waiting for the same path share
\* one fetch: the response is handed to all of them at once
FetchResolveMutShared(i, ok) ==
    /\ calls[i].pc = "fetch"
    /\ LET body == IF ok THEN sheets[calls[i].xsltPath] ELSE ErrorPage
           same == {j \in 1..Len(calls) : /\ calls[j].pc = "fetch"
                                          /\ calls[j].xsltPath = calls[i].xsltPath}
       IN  /\ calls' = [j \in 1..Len(calls) |->
                          IF j \in same
                          THEN [calls[j] EXCEPT !.pc = "text",
                                                !.response = [ok |-> ok, body |-> body]]
                          ELSE calls[j]]
           /\ fetchLog' = [j \in 1..Len(fetchLog) |->
                             IF j \in same
                             THEN [fetchLog[j] EXCEPT !.answered = "resolved", !.served = body]
                             ELSE fetchLog[j]]
    /\ UNCHANGED <<serVars, exVars, printVars, queryVars, clock, sheets, html>>

\* fetch resolves with a response, whatever its status: the stylesheet the
\* server holds now, or an error page
FetchResolve(i, ok) ==
    /\ calls[i].pc = "fetch"
    /\ LET body == IF ok THEN sheets[calls[i].xsltPath] ELSE ErrorPage
       IN  /\ calls' = [calls EXCEPT ![i].pc = "text",
                                     ![i].response = [ok |-> ok, body |-> body]]
           /\ fetchLog' = [fetchLog EXCEPT ![i].answered = "resolved", ![i].served = body]
    /\ UNCHANGED <<serVars, exVars, printVars, queryVars, clock, sheets, html>>

\* fetch rejects (the network fails)
FetchReject(i) ==
    /\ calls[i].pc = "fetch"
    /\ calls' = [calls EXCEPT ![i] = AwaitRejected(@, "fetch")]
    /\ fetchLog' = [fetchLog EXCEPT ![i].answered = "rejected", ![i].fault = "fetch"]
    /\ UNCHANGED <<serVars, exVars, printVars, queryVars, clock, sheets, html>>

\* response.text() rejects (the body cannot be read)
TextReject(i) ==
    /\ calls[i].pc = "text"
    /\ calls' = [calls EXCEPT ![i] = AwaitRejected(@, "text")]
    /\ fetchLog' = [fetchLog EXCEPT ![i].fault = "text"]
    /\ UNCHANGED <<serVars, exVars, printVars, queryVars, clock, sheets, html>>

\* a variant of handleSetHtml that catches the rejection and clears the markup
HtmlAfterMutClearsOnFailure(c, prev) ==
    IF c.caller = "page"
    THEN (IF c.outcome.type = "normal" THEN c.outcome.value ELSE <<>>)
    ELSE prev

\* the html state once the call c has ended, prev being the state before:
\* handleSetHtml goes on after its await only when the call returned, and
\* then setHtml(html) stores what it returned
HtmlAfter(c, prev) ==
    IF c.caller = "page" /\ c.outcome.type = "normal"
    THEN c.outcome.value
    ELSE prev

\* response.text() resolves: transformXml runs, the call returns or throws,
\* and handleSetHtml, when it made the call and got markup, sets html
TextResolve(i, failAt) ==
    /\ calls[i].pc = "text"
    /\ calls' = [calls EXCEPT ![i] = Transformed(calls, i, clock, failAt)]
    /\ fetchLog' = [fetchLog EXCEPT ![i].fault = failAt, ![i].at = clock]
    /\ html' = HtmlAfter(calls'[i], html)
    /\ UNCHANGED <<serVars, exVars, printVars, queryVars, clock, sheets>>

Next ==
    \/ Tick
    \/ EditSheet
    \/ \E inp \in CallerInputs : generateInvoiceHtml(inp[1], inp[2])
    \/ \E i \in 1..Len(calls) : FetchResolve(i, TRUE)
    \/ \E i \in 1..Len(calls) : FetchReject(i)
    \/ \E i \in 1..Len(calls) : TextReject(i)
    \/ \E i \in 1..Len(calls), failAt \in PlatformFailures \cup {"none"} : TextResolve(i, failAt)

Spec == Init /\ [][Next]_vars

\* the page run: the calls are those of the Generate HTML button
PageNext ==
    \/ \E s \in Seeds : handleSetHtml(s)
    \/ \E i \in 1..Len(calls), ok \in BOOLEAN : FetchResolve(i, ok)
    \/ \E i \in 1..Len(calls) : FetchReject(i)
    \/ \E i \in 1..Len(calls), failAt \in {"none", "transformToDocument"} :
          TextResolve(i, failAt)

PageSpec == Init /\ [][PageNext]_vars

\* the run in which the awaits settle: calls by any caller, every response the
\* server can give, every failure of the network and of the platform
SettleNext ==
    \/ \E inp \in CallerInputs : generateInvoiceHtml(inp[1], inp[2])
    \/ \E i \in 1..Len(calls), ok \in BOOLEAN : FetchResolve(i, ok)
    \/ \E i \in 1..Len(calls) : FetchReject(i)
    \/ \E i \in 1..Len(calls) : TextReject(i)
    \/ \E i \in 1..Len(calls), failAt \in PlatformFailures \cup {"none"} : TextResolve(i, failAt)

\* the promise of fetch(xsltPath) of call i settles: it resolves or rejects
FetchSettles(i) ==
    /\ i \in 1..Len(calls)
    /\ \/ \E ok \in BOOLEAN : FetchResolve(i, ok)
       \/ FetchReject(i)

\* the promise of response.text() of call i settles, and the synchronous rest
\* of the call runs
TextSettles(i) ==
    /\ i \in 1..Len(calls)
    /\ \/ TextReject(i)
       \/ \E failAt \in PlatformFailures \cup {"none"} : TextResolve(i, failAt)

\* every promise a call awaits settles in the end
AwaitsSettle ==
    \A i \in 1..MaxCalls : WF_vars(FetchSettles(i)) /\ WF_vars(TextSettles(i))

SettleSpec == Init /\ [][SettleNext]_vars /\ AwaitsSettle

(***************************************************************************)
(* pages/invoice-preview: the Print button.  useReactToPrint is the        *)
(* library's: a click on the enabled button starts a print, the library    *)
(* prepares the content, calls onBeforePrint, prints, and calls            *)
(* onAfterPrint; a click while the content is prepared starts the print    *)
(* over.                                                                   *)
(***************************************************************************)
\* disabled={isPrinting || !html}
PrintDisabled == isPrinting \/ html = <<>>

\* a click on Print: onClick={handlePrint}, which a disabled button does not
\* deliver
handlePrint ==
    /\ ~PrintDisabled
    /\ printJob' = "content"
    /\ UNCHANGED <<serVars, pipeVars, exVars, queryVars, isPrinting>>

\* a variant of onBeforePrint that leaves isPrinting alone
onBeforePrintMutNoFlag ==
    /\ printJob = "content"
    /\ printJob' = "printing"
    /\ UNCHANGED <<serVars, pipeVars, exVars, queryVars, isPrinting>>

\* the library calls onBeforePrint: setIsPrinting(true)
onBeforePrint ==
    /\ printJob = "content"
    /\ printJob' = "printing"
    /\ isPrinting' = TRUE
    /\ UNCHANGED <<serVars, pipeVars, exVars, queryVars>>

\* the library calls onAfterPrint: setIsPrinting(false)
onAfterPrint ==
    /\ printJob = "printing"
    /\ printJob' = "idle"
    /\ isPrinting' = FALSE
    /\ UNCHANGED <<serVars, pipeVars, exVars, queryVars>>

\* the preview run: clicks on Generate HTML and on Print, the stylesheet the
\* server sends, the failures of the network and of the platform, the print
PrintNext ==
    \/ \E s \in Seeds : handleSetHtml(s)
    \/ \E i \in 1..Len(calls) : FetchResolve(i, TRUE)
    \/ \E i \in 1..Len(calls) : FetchReject(i)
    \/ \E i \in 1..Len(calls), failAt \in {"none", "transformToDocument"} :
          TextResolve(i, failAt)
    \/ handlePrint
    \/ onBeforePrint
    \/ onAfterPrint

PrintSpec == Init /\ [][PrintNext]_vars

(***************************************************************************)
(* pages/abort-request: AxiosCancelTokenExample and                        *)
(* FetchAbortControllerExample.  The two components have the same state    *)
(* and the same handlers; they differ in what is awaited (axios settles    *)
(* once, fetch is followed by res.json()) and in what handleError reports. *)
(* A request is "request" while its HTTP call is awaited, "json" while     *)
(* res.json() is awaited, "catch" once its awaited promise has rejected    *)
(* with the cancellation and its catch block is queued, and "done" after   *)
(* its finally block.                                                      *)
(***************************************************************************)
Examples == {"axios", "fetch"}

\* type Todo, as far as the handlers look at it
Todo(id, title) == [id |-> id, title |-> title]
NoTodo == Todo(0, <<>>)

\* what jsonplaceholder answers: the list of GET /posts and the id of a POST
PostsOnServer == <<Todo(1, <<"T">>)>>
CreatedId == 101

\* { userId: 1, title: "New Todo", completed: false }
NewTodo == Todo(0, <<"N">>)

NewExampleRequest(op, todo, by) ==
    [op |-> op, todo |-> todo, by |-> by, pc |-> "request",
     cancelled |-> "none", toast |-> "none", applied |-> FALSE]

InFlightPcs == {"request", "json"}

\* no rejected promise waits for its catch block: the microtask queue is
\* empty, so an event (a click, a response, the unmount) can be handled
NoJob == \A r \in 1..Len(requests) : requests[r].pc # "catch"

\* a variant of the prologue that keeps the first source in the ref
StartedMutKeepsFirstSource(op, todo, by) ==
    /\ requests' = Append(requests, NewExampleRequest(op, todo, by))
    /\ cancelToken' = IF cancelToken = 0 THEN Len(requests) + 1 ELSE cancelToken
    /\ posts' = IF op = "fetchPosts" THEN <<>> ELSE posts
    /\ loading' = TRUE

\* the lines every handler runs before its await: a new source (controller)
\* is put in the ref, fetchPosts empties posts, loading is set
Started(op, todo, by) ==
    /\ requests' = Append(requests, NewExampleRequest(op, todo, by))
    /\ cancelToken' = Len(requests) + 1
    /\ posts' = IF op = "fetchPosts" THEN <<>> ELSE posts
    /\ loading' = TRUE

\* source.cancel(message) / controller.abort() on the source of request k
\* (0: the ref holds null): a request still awaited rejects, a second cancel
\* of the same source does nothing
Cancel(reqs, k, who) ==
    IF k = 0 THEN reqs
    ELSE IF reqs[k].cancelled # "none" THEN reqs
    ELSE IF reqs[k].pc \in InFlightPcs
         THEN [reqs EXCEPT ![k].cancelled = who, ![k].pc = "catch"]
         ELSE [reqs EXCEPT ![k].cancelled = who]

\* the argument of setPosts after the await of each handler
SuccessUpdate(req, resData, prev) ==
    CASE req.op = "fetchPosts"  -> resData
      [] req.op = "createTodo"  -> Append(prev, resData)
      [] req.op \in {"patchTodo", "replaceTodo"} ->
             [n \in 1..Len(prev) |-> IF prev[n].id = resData.id THEN resData ELSE prev[n]]
      [] req.op = "deleteTodo"  -> SelectSeq(prev, LAMBDA item : item.id # req.todo.id)

\* response.data / await res.json() of a successful request
ResponseData(req) ==
    CASE req.op = "fetchPosts" -> PostsOnServer
      [] req.op = "createTodo" -> Todo(CreatedId, req.todo.title)
      [] OTHER                 -> req.todo

\* the message handleError gives the toast for a cancellation, and for any
\* other error, in each example
CancelMessage == [e \in Examples |->
                    IF e = "axios" THEN "REQUEST_CANCELLED" ELSE "REQUEST_ABORTED"]
ErrorMessage  == [e \in Examples |->
                    IF e = "axios" THEN "AXIOS_ERROR" ELSE "FETCH_ERROR"]

ExampleInit ==
    /\ serOp = "none"
    /\ serArg = NoArg
    /\ serOut = NotCalled
    /\ clock = 0
    /\ sheets = InitialSheets
    /\ calls = <<>>
    /\ fetchLog = <<>>
    /\ html = <<>>
    /\ NoPrint
    /\ NoQuery
    /\ example \in Examples
    /\ mounted = FALSE
    /\ requests = <<>>
    /\ cancelToken = 0
    /\ posts = <<>>
    /\ loading = FALSE

\* the component mounts: the effect runs fetchPosts()
Mount ==
    /\ ~mounted /\ requests = <<>>
    /\ mounted' = TRUE
    /\ Started("fetchPosts", NoTodo, "mount")
    /\ UNCHANGED <<serVars, pipeVars, printVars, queryVars, example>>

\* a click on Retry Request (disabled={loading})
fetchPosts ==
    /\ mounted /\ NoJob /\ ~loading
    /\ Len(requests) < MaxRequests
    /\ Started("fetchPosts", NoTodo, "click")
    /\ UNCHANGED <<serVars, pipeVars, printVars, queryVars, example, mounted>>

\* a click on Create Todo (disabled={loading})
createTodo ==
    /\ mounted /\ NoJob /\ ~loading
    /\ Len(requests) < MaxRequests
    /\ Started("createTodo", NewTodo, "click")
    /\ UNCHANGED <<serVars, pipeVars, printVars, queryVars, example, mounted>>

\* a click on Delete in the row of a post (never disabled)
deleteTodo(n) ==
    /\ mounted /\ NoJob
    /\ Len(requests) < MaxRequests
    /\ Started("deleteTodo", Todo(posts[n].id, <<>>), "click")
    /\ UNCHANGED <<serVars, pipeVars, printVars, queryVars, example, mounted>>

\* a click on Update in the row of a post (never disabled)
patchTodo(n) ==
    /\ mounted /\ NoJob
    /\ Len(requests) < MaxRequests
    /\ Started("patchTodo", Todo(posts[n].id, posts[n].title \o <<"U">>), "click")
    /\ UNCHANGED <<serVars, pipeVars, printVars, queryVars, example, mounted>>

\* a click on Replace in the row of a post (never disabled)
replaceTodo(n) ==
    /\ mounted /\ NoJob
    /\ Len(requests) < MaxRequests
    /\ Started("replaceTodo", Todo(posts[n].id, <<"R">>), "click")
    /\ UNCHANGED <<serVars, pipeVars, printVars, queryVars, example, mounted>>

\* a click on Cancel Request (disabled={!loading})
handleCancel ==
    /\ mounted /\ NoJob /\ loading
    /\ requests' = Cancel(requests, cancelToken, "user")
    /\ UNCHANGED <<serVars, pipeVars, printVars, queryVars, example, mounted, cancelToken, posts, loading>>

\* the component unmounts: the cleanup of the effect runs
Unmount ==
    /\ mounted /\ NoJob
    /\ mounted' = FALSE
    /\ requests' = Cancel(requests, cancelToken, "unmount")
    /\ UNCHANGED <<serVars, pipeVars, printVars, queryVars, example, cancelToken, posts, loading>>

\* the rest of a handler after its last await resolved: the success update
\* and the finally block (a state setter of an unmounted component does
\* nothing)
Succeed(r) ==
    /\ requests' = [requests EXCEPT ![r].pc = "done", ![r].applied = TRUE]
    /\ posts' = IF mounted
                THEN SuccessUpdate(requests[r], ResponseData(requests[r]), posts)
                ELSE posts
    /\ loading' = IF mounted THEN FALSE ELSE loading

\* the catch and finally blocks of a handler whose await rejected
Fail(r, message) ==
    /\ requests' = [requests EXCEPT ![r].pc = "done", ![r].toast = message]
    /\ loading' = IF mounted THEN FALSE ELSE loading
    /\ UNCHANGED posts

\* the HTTP call of request r settles: axios resolves on a success status and
\* rejects otherwise; fetch resolves with the response or rejects when the
\* network fails, and every handler but deleteTodo goes on to res.json()
Respond(r, ok) ==
    /\ NoJob
    /\ requests[r].pc = "request"
    /\ IF ~ok THEN Fail(r, ErrorMessage[example])
       ELSE IF example = "fetch" /\ requests[r].op # "deleteTodo"
            THEN /\ requests' = [requests EXCEPT ![r].pc = "json"]
                 /\ UNCHANGED <<posts, loading>>
            ELSE Succeed(r)
    /\ UNCHANGED <<serVars, pipeVars, printVars, queryVars, example, mounted, cancelToken>>

\* res.json() of request r settles
BodyRead(r, ok) ==
    /\ NoJob
    /\ requests[r].pc = "json"
    /\ IF ok THEN Succeed(r) ELSE Fail(r, ErrorMessage[example])
    /\ UNCHANGED <<serVars, pipeVars, printVars, queryVars, example, mounted, cancelToken>>

\* the catch block of a cancelled request runs, then its finally block
Catch(r) ==
    /\ requests[r].pc = "catch"
    /\ Fail(r, CancelMessage[example])
    /\ UNCHANGED <<serVars, pipeVars, printVars, queryVars, example, mounted, cancelToken>>

ExampleNext ==
    \/ Mount
    \/ fetchPosts
    \/ createTodo
    \/ \E n \in 1..Len(posts) : deleteTodo(n)
    \/ \E n \in 1..Len(posts) : patchTodo(n)
    \/ \E n \in 1..Len(posts) : replaceTodo(n)
    \/ handleCancel
    \/ Unmount
    \/ \E r \in 1..Len(requests), ok \in BOOLEAN : Respond(r, ok)
    \/ \E r \in 1..Len(requests), ok \in BOOLEAN : BodyRead(r, ok)
    \/ \E r \in 1..Len(requests) : Catch(r)

\* a queued catch block runs, and the network answers every request that is
\* not cancelled; the user is free to click or not
ExampleFairness ==
    /\ WF_vars(\E r \in 1..Len(requests) : Catch(r))
    /\ WF_vars(\E r \in 1..Len(requests), ok \in BOOLEAN : Respond(r, ok) \/ BodyRead(r, ok))

ExampleSpec == ExampleInit /\ [][ExampleNext]_vars /\ ExampleFairness

(***************************************************************************)
(* pages/abort-request/rtk-query-example: useAbortableMutation.  A request *)
(* is what mutationFn(args) returns: a promise with an abort function.     *)
(* requests holds them in the order of their start, cancelToken stands for *)
(* abortRef.current.                                                       *)
(***************************************************************************)
NoReason      == "undefined"
DefaultReason == "Aborted by user"
UserReason    == "Request cancelled by user"
CleanupReason == "Request cancelled during cleanup"

\* the request mutationFn(args) returns for the hook, started through via
NewQueryRequest(hook, via) ==
    [hook |-> hook, via |-> via, pc |-> "request", outcome |-> "pending",
     reasons |-> {}, abortedBy |-> "none", refetched |-> FALSE]

\* request.abort(reason) of request k, called by who: a request still awaited
\* is aborted and will reject, a settled one only sees the call
AbortFn(reqs, k, reason, who) ==
    [reqs EXCEPT ![k].reasons = @ \cup {reason},
                 ![k].abortedBy = IF reqs[k].pc = "request" /\ @ = "none" THEN who ELSE @]

\* abort(reason = "Aborted by user"): abortRef.current?.(reason)
abort(reqs, ref, given, who) ==
    IF ref = 0 THEN reqs
    ELSE AbortFn(reqs, ref, IF given = NoReason THEN DefaultReason ELSE given, who)

\* a variant of runMutation that keeps the abort function of the first request
abortRefAfterMutKeepsFirst(ref, k) == IF ref = 0 THEN k ELSE ref

\* abortRef.current = request.abort, k being the request just started
abortRefAfter(ref, k) == k

\* the functions a caller hands to runMutation
MutationFns == {"create", "delete"}

\* a caller calls runMutation(mutationFn, args): up to the await
runMutation(fn) ==
    /\ Len(requests) < MaxRequests
    /\ requests' = Append(requests, NewQueryRequest(fn, "runMutation"))
    /\ cancelToken' = abortRefAfter(cancelToken, Len(requests) + 1)
    /\ UNCHANGED <<serVars, pipeVars, printVars, errors, abortLog, example, mounted, posts, loading>>

\* a caller calls abort(given), or abort() when given is NoReason
CallAbort(given) ==
    /\ requests' = abort(requests, cancelToken, given, "caller")
    /\ abortLog' = [given |-> given, target |-> cancelToken]
    /\ UNCHANGED <<serVars, pipeVars, printVars, errors, example, mounted, cancelToken, posts, loading>>

\* await request settles; the catch and finally blocks call onError and
\* onFinally, which are the caller's.  An aborted request rejects.
RequestSettles(r, ok) ==
    /\ requests[r].pc = "request"
    /\ ok => requests[r].abortedBy = "none"
    /\ requests' = [requests EXCEPT ![r].pc = "done",
                                    ![r].outcome = IF ok THEN "fulfilled" ELSE "rejected"]
    /\ UNCHANGED <<serVars, pipeVars, printVars, queryVars, example, mounted, cancelToken, posts, loading>>

HookNext ==
    \/ \E fn \in MutationFns : runMutation(fn)
    \/ \E given \in {NoReason, UserReason} : CallAbort(given)
    \/ \E r \in 1..Len(requests), ok \in BOOLEAN : RequestSettles(r, ok)

HookSpec == Init /\ [][HookNext]_vars

(***************************************************************************)
(* pages/abort-request: RTKQueryExample and                                *)
(* ReactQueryAbortControllerExample.  Both keep one ref (abortRef,         *)
(* controllerRef) that every request started through it overwrites, and    *)
(* both run an effect whose dependencies are error fields of the hooks and *)
(* whose cleanup aborts what the ref holds.  The hooks are the libraries': *)
(* a hook shows the state of its newest request, a mutation hook drops its *)
(* error when it is triggered again, a settled mutation invalidates the    *)
(* posts query, which is then fetched again.                               *)
(***************************************************************************)
QueryExamples == {"react-query", "rtk-query"}

\* the newest request of a hook, 0 when it has none
LatestOf(reqs, hook) ==
    LET S == {r \in 1..Len(reqs) : reqs[r].hook = hook}
    IN  IF S = {} THEN 0 ELSE CHOOSE r \in S : \A q \in S : q <= r

\* isFetching || isCreating || isUpdating || isReplacing || isDeleting
isLoading ==
    \E r \in 1..Len(requests) :
        requests[r].pc = "request" /\ r = LatestOf(requests, requests[r].hook)

\* error || createPostError || updatePostError || replacePostError ||
\* deletePostError
initialError(errs) ==
    LET order == <<"query", "create", "update", "replace", "delete">>
        S == {j \in 1..Len(order) : errs[order[j]] # 0}
    IN  IF S = {} THEN 0 ELSE errs[order[CHOOSE j \in S : \A k \in S : j <= k]]

\* the dependency list of the effect: [initialError] in the RTK Query
\* example, [isError, error] of the posts query in the React Query one
Deps(ex, errs) ==
    IF ex = "rtk-query" THEN initialError(errs) ELSE errs["query"]

\* what aborts through the ref: abort(given) of useAbortableMutation, or
\* controllerRef.current?.abort()
RefAbort(ex, reqs, ref, given, who) ==
    IF ex = "rtk-query" THEN abort(reqs, ref, given, who)
    ELSE IF ref = 0 THEN reqs ELSE AbortFn(reqs, ref, NoReason, who)

\* the effect after a render of the mounted component in which the error
\* fields went from before to after: when a dependency changed, the cleanup
\* of the previous run is called first, and it aborts what the ref holds
Effect(ex, before, after, reqs, ref) ==
    IF mounted /\ Deps(ex, before) # Deps(ex, after)
    THEN RefAbort(ex, reqs, ref, CleanupReason, "deps")
    ELSE reqs

QueryInit ==
    /\ serOp = "none"
    /\ serArg = NoArg
    /\ serOut = NotCalled
    /\ clock = 0
    /\ sheets = InitialSheets
    /\ calls = <<>>
    /\ fetchLog = <<>>
    /\ html = <<>>
    /\ NoPrint
    /\ NoQuery
    /\ example \in QueryExamples
    /\ mounted = FALSE
    /\ requests = <<>>
    /\ cancelToken = 0
    /\ posts = <<>>
    /\ loading = FALSE

\* the component mounts: the posts query is fetched; queryFn of the React
\* Query example puts its controller in the ref, useGetPostsQuery does not
\* go through runMutation
QueryMount ==
    /\ ~mounted /\ requests = <<>>
    /\ mounted' = TRUE
    /\ requests' = <<NewQueryRequest("query", IF example = "rtk-query" THEN "hook" ELSE "queryFn")>>
    /\ cancelToken' = IF example = "rtk-query" THEN 0 ELSE 1
    /\ UNCHANGED <<serVars, pipeVars, printVars, queryVars, example, posts, loading>>

\* a click on Retry Request (disabled={isLoading}): runMutation(refetch) or
\* refetch()
RetryRequest ==
    /\ mounted /\ ~isLoading
    /\ Len(requests) < MaxRequests
    /\ requests' = Append(requests,
                          NewQueryRequest("query", IF example = "rtk-query" THEN "runMutation"
                                                   ELSE "queryFn"))
    /\ cancelToken' = abortRefAfter(cancelToken, Len(requests) + 1)
    /\ UNCHANGED <<serVars, pipeVars, printVars, queryVars, example, mounted, posts, loading>>

\* a click on Create POST (disabled={isLoading}) or on Delete, Update or
\* Replace in the row of a post (never disabled): the mutation is triggered,
\* its hook drops the error of its previous request, the ref takes the
\* new request, and the component renders
Mutate(hook) ==
    /\ mounted
    /\ IF hook = "create" THEN ~isLoading ELSE posts # <<>>
    /\ Len(requests) < MaxRequests
    /\ LET started == Append(requests,
                             NewQueryRequest(hook, IF example = "rtk-query" THEN "runMutation"
                                                   ELSE "mutationFn"))
           ref     == abortRefAfter(cancelToken, Len(requests) + 1)
           errs    == [errors EXCEPT ![hook] = 0]
       IN  /\ cancelToken' = ref
           /\ errors' = errs
           /\ requests' = Effect(example, errors, errs, started, ref)
    /\ UNCHANGED <<serVars, pipeVars, printVars, abortLog, example, mounted, posts, loading>>

\* a click on Cancel Request (disabled={!isLoading})
CancelRequest ==
    /\ mounted /\ isLoading
    /\ requests' = RefAbort(example, requests, cancelToken, UserReason, "user")
    /\ UNCHANGED <<serVars, pipeVars, printVars, queryVars, example, mounted, cancelToken, posts, loading>>

\* a request settles: its hook, when this is its newest request, shows the
\* data or the error, and the component renders.  An aborted request rejects.
QuerySettles(r, ok) ==
    /\ requests[r].pc = "request"
    /\ ok => requests[r].abortedBy = "none"
    /\ LET hook    == requests[r].hook
           newest  == r = LatestOf(requests, hook)
           settled == [requests EXCEPT ![r].pc = "done",
                                       ![r].outcome = IF ok THEN "fulfilled" ELSE "rejected"]
           errs    == IF newest THEN [errors EXCEPT ![hook] = IF ok THEN 0 ELSE r]
                      ELSE errors
       IN  /\ errors' = errs
           /\ posts' = IF ok /\ newest /\ hook = "query" THEN PostsOnServer ELSE posts
           /\ requests' = Effect(example, errors, errs, settled, cancelToken)
    /\ UNCHANGED <<serVars, pipeVars, printVars, abortLog, example, mounted, cancelToken, loading>>

\* a settled mutation invalidates the posts query, which is fetched again:
\* invalidatesTags: ["Posts"] (not after an abort), or
\* onSuccess: invalidateQueries, whose queryFn takes the ref
Invalidate(r) ==
    /\ mounted
    /\ requests[r].hook # "query" /\ requests[r].pc = "done" /\ ~requests[r].refetched
    /\ IF example = "rtk-query" THEN requests[r].abortedBy = "none"
       ELSE requests[r].outcome = "fulfilled"
    /\ Len(requests) < MaxRequests
    /\ requests' = Append([requests EXCEPT ![r].refetched = TRUE],
                          NewQueryRequest("query", IF example = "rtk-query" THEN "hook"
                                                   ELSE "queryFn"))
    /\ cancelToken' = IF example = "rtk-query" THEN cancelToken ELSE Len(requests) + 1
    /\ UNCHANGED <<serVars, pipeVars, printVars, queryVars, example, mounted, posts, loading>>

\* the component unmounts: the cleanup of the effect runs
QueryUnmount ==
    /\ mounted
    /\ mounted' = FALSE
    /\ requests' = RefAbort(example, requests, cancelToken, CleanupReason, "unmount")
    /\ UNCHANGED <<serVars, pipeVars, printVars, queryVars, example, cancelToken, posts, loading>>

QueryNext ==
    \/ QueryMount
    \/ RetryRequest
    \/ \E hook \in Hooks \ {"query"} : Mutate(hook)
    \/ CancelRequest
    \/ \E r \in 1..Len(requests), ok \in BOOLEAN : QuerySettles(r, ok)
    \/ \E r \in 1..Len(requests) : Invalidate(r)
    \/ QueryUnmount

QuerySpec == QueryInit /\ [][QueryNext]_vars

(***************************************************************************)
(* Reading markup back, position by position                               *)
(***************************************************************************)
WS == {NL, SP}

\* piece occurs in s at position p
StartsAt(s, p, piece) ==
    /\ p >= 1
    /\ p + Len(piece) - 1 <= Len(s)
    /\ piece # <<>> => s[p] = piece[1]
    /\ SubSeq(s, p, p + Len(piece) - 1) = piece

\* the first position from p on that holds no character of chars
Skip(s, p, chars) ==
    CHOOSE q \in p..(Len(s) + 1) :
        /\ \A i \in p..(q - 1) : s[i] \in chars
        /\ q = Len(s) + 1 \/ s[q] \notin chars

RECURSIVE ReadPieces(_, _, _, _, _)
\* the position after pieces j.. of the list, read from p with only characters
\* of seps before each of them; 0 when the markup does not read that way
ReadPieces(s, p, pieces, j, seps) ==
    IF p = 0 THEN 0
    ELSE IF j > Len(pieces) THEN p
    ELSE LET q == Skip(s, p, seps)
         IN  IF StartsAt(s, q, pieces[j])
             THEN ReadPieces(s, q + Len(pieces[j]), pieces, j + 1, seps)
             ELSE 0

\* the position after piece when it is at p, else 0
ReadPiece(s, p, piece) == IF p # 0 /\ StartsAt(s, p, piece) THEN p + Len(piece) ELSE 0

OpenTag(name)  == <<"<">> \o name \o <<">">>
CloseTag(name) == <<"<", "/">> \o name \o <<">">>

\* the text form of each value of the runs, written out
TextForm(v) ==
    CASE v = Str(<<"x">>)           -> <<"x">>
      [] v = Str(<<>>)              -> <<>>
      [] v = Str(<<"a", " ", "b">>) -> <<"a", " ", "b">>
      [] v = Str(<<"a", "&">>)      -> <<"a", "&">>
      [] v = Str(<<"<", "b">>)      -> <<"<", "b">>
      [] v = Num(0)                 -> <<"0">>
      [] v = Num(12)                -> <<"1", "2">>
      [] v = Num(-3)                -> <<"-", "3">>
      [] v = Num(105)               -> <<"1", "0", "5">>
      [] v = Bool(TRUE)             -> <<"t", "r", "u", "e">>
      [] v = Bool(FALSE)            -> <<"f", "a", "l", "s", "e">>

\* <key>text form of the value</key>, for every entry of obj in order
LiteralChildren(obj) ==
    [j \in 1..Len(obj) |->
        OpenTag(obj[j].key) \o TextForm(obj[j].value) \o CloseTag(obj[j].key)]

\* the position after <tagName> children </tagName> read from p, the children
\* separated by characters of seps only; 0 when the markup does not read so
ReadRecord(s, p, tagName, children, seps) ==
    LET a == ReadPiece(s, p, OpenTag(tagName))
        b == ReadPieces(s, a, children, 1, seps)
        c == IF b = 0 THEN 0 ELSE Skip(s, b, WS)
    IN  ReadPiece(s, c, CloseTag(tagName))

RECURSIVE ReadBlocks(_, _, _, _, _)
\* the position after the item blocks k.. of items, each directly following
\* the one before it; 0 when the markup does not read so
ReadBlocks(s, p, itemName, items, k) ==
    IF p = 0 THEN 0
    ELSE IF k > Len(items) THEN p
    ELSE ReadBlocks(s, ReadRecord(s, p, itemName, LiteralChildren(items[k]), WS \cup {","}),
                    itemName, items, k + 1)

\* the text between the first ">" of the markup and the next "<" after it:
\* the text content a reader finds in <name>text</name>
TextContent(s) ==
    LET gt == CHOOSE p \in 1..Len(s) : s[p] = ">" /\ \A i \in 1..(p - 1) : s[i] # ">"
        lt == Skip(s, gt + 1, {c \in {s[i] : i \in 1..Len(s)} : c # "<"})
    IN  SubSeq(s, gt + 1, lt - 1)

HasReserved(v) == \E i \in 1..Len(TextForm(v)) : TextForm(v)[i] \in {"<", "&", ">"}

SerCalled == serOut # NotCalled

(***************************************************************************)
(* Claims about transformXml and generateInvoiceHtml                       *)
(***************************************************************************)
Done(i)     == calls[i].pc = "done"
Returned(i) == Done(i) /\ calls[i].outcome.type = "normal"
Applied(i)  == \E n \in 1..Len(calls[i].trace) : calls[i].trace[n].op = "transformToDocument"

\* the values bound under key in a list of bindings
ValuesOf(ps, key) == {ps[j].value : j \in {n \in 1..Len(ps) : ps[n].key = key}}

\* C1: when transformXml applies the stylesheet, the processor parameter
\* "create-date" is the en-US text of the instant of the call, also when
\* params holds a "create-date" of its own, which is never the value in force.
C1_CreateDateIsTransformersOwn ==
    \A i \in 1..Len(calls) :
        Applied(i) =>
            /\ Cardinality({n \in 1..Len(calls[i].applied) :
                              calls[i].applied[n].key = K_create_date}) = 1
            /\ ValuesOf(calls[i].applied, K_create_date)
                 = {Str(<<"D", "a", "y", " ">> \o Decimal(fetchLog[i].at))}
            /\ ValuesOf(calls[i].params.entries, K_create_date) = {Str(IGNORED)}
                 => Str(IGNORED) \notin ValuesOf(calls[i].applied, K_create_date)

C1_Witness ==
    \E i \in 1..Len(calls) :
        /\ Applied(i) /\ Returned(i)
        /\ fetchLog[i].at = 1
        /\ ValuesOf(calls[i].params.entries, K_create_date) = {Str(<<"D", "a", "y", " ", "0">>)}
        /\ ValuesOf(calls[i].applied, K_lang) = {Str(<<"e", "n">>)}

\* C2: every call of generateInvoiceHtml issues its own fetch of xsltPath, and
\* a call that returns returns exactly what transformXml makes of the text
\* served to that fetch, the call's xmlString and its xmlMockParams.
C2_FetchesEveryCallAndReturnsTransform ==
    /\ Len(fetchLog) = Len(calls)
    /\ \A i \in 1..Len(calls) :
          /\ fetchLog[i].call = i
          /\ fetchLog[i].path = calls[i].xsltPath
          /\ Returned(i) =>
                calls[i].outcome
                  = transformXml(fetchLog[i].served, calls[i].xmlString, calls[i].params,
                                 fetchLog[i].at, "none").completion

C2_Witness ==
    \E i, j \in 1..Len(calls) :
        /\ i < j
        /\ Returned(i) /\ Returned(j)
        /\ calls[i].xsltPath = calls[j].xsltPath
        /\ fetchLog[i].served = SheetV1 /\ fetchLog[j].served = SheetV2
        /\ calls[j].outcome.value[1].xslt.source = SheetV2

\* C10: when fetch, response.text or a step of transformXml raises, the call
\* of generateInvoiceHtml ends raising that failure: it returns no markup, and
\* fetch has been called exactly once for it.
C10_FailuresPropagate ==
    \A i \in 1..Len(calls) :
        /\ Cardinality({n \in 1..Len(fetchLog) : fetchLog[n].call = i}) = 1
        /\ fetchLog[i].fault # "none" =>
              /\ Done(i)
              /\ calls[i].outcome = Throw(fetchLog[i].fault)

C10_Witness ==
    \E i, j \in 1..Len(calls) :
        /\ fetchLog[i].fault = "fetch" /\ Done(i)
        /\ fetchLog[j].fault = "serializeToString" /\ Done(j)

(***************************************************************************)
(* Claims about the xmlString of handleSetHtml                             *)
(***************************************************************************)
\* the positions of s that hold a "<"
Marks(s) == {p \in 1..Len(s) : s[p] = "<"}

\* the positions among marks at which piece, which starts with "<", occurs in s
Occ(s, marks, piece) ==
    {p \in marks : p + Len(piece) - 1 <= Len(s) /\ SubSeq(s, p, p + Len(piece) - 1) = piece}

\* only whitespace from position a to position b of s
OnlyWs(s, a, b) == \A p \in a..b : s[p] \in WS

The(S) == CHOOSE x \in S : TRUE
Min(S) == CHOOSE x \in S : \A y \in S : x <= y
Max(S) == CHOOSE x \in S : \A y \in S : y <= x

InvoiceChildren ==
    <<K_createDate, K_companyInfo, K_clientInfo, K_headerInfo, K_invoiceInfo, K_invoiceItems>>

\* between positions a and b, s holds the six children of an Invoice, each
\* once, one after the other in the order of InvoiceChildren, with only
\* whitespace around them
SixChildrenInOrder(s, marks, a, b) ==
    LET inside == {p \in marks : a <= p /\ p <= b}
        opens  == [j \in 1..6 |-> Occ(s, inside, OpenTag(InvoiceChildren[j]))]
        closes == [j \in 1..6 |-> Occ(s, inside, CloseTag(InvoiceChildren[j]))]
    IN  /\ \A j \in 1..6 : Cardinality(opens[j]) = 1 /\ Cardinality(closes[j]) = 1
        /\ LET open  == [j \in 1..6 |-> The(opens[j])]
               endOf == [j \in 1..6 |-> The(closes[j]) + Len(CloseTag(InvoiceChildren[j])) - 1]
           IN  /\ \A j \in 1..6 : open[j] < endOf[j]
               /\ OnlyWs(s, a, open[1] - 1)
               /\ \A j \in 1..5 : /\ endOf[j] < open[j + 1]
                                  /\ OnlyWs(s, endOf[j] + 1, open[j + 1] - 1)
               /\ OnlyWs(s, endOf[6] + 1, b)

\* s is one Invoices root whose children are exactly two Invoice elements,
\* each with the six children in order
TwoInvoicesDocument(s) ==
    LET marks == Marks(s)
        ro == Occ(s, marks, OpenTag(K_Invoices))
        rc == Occ(s, marks, CloseTag(K_Invoices))
        io == Occ(s, marks, OpenTag(K_Invoice))
        ic == Occ(s, marks, CloseTag(K_Invoice))
        lo == Len(OpenTag(K_Invoice))
        lc == Len(CloseTag(K_Invoice))
    IN  /\ Cardinality(ro) = 1 /\ Cardinality(rc) = 1
        /\ Cardinality(io) = 2 /\ Cardinality(ic) = 2
        /\ OnlyWs(s, 1, The(ro) - 1)
        /\ OnlyWs(s, The(rc) + Len(CloseTag(K_Invoices)), Len(s))
        /\ OnlyWs(s, The(ro) + Len(OpenTag(K_Invoices)), Min(io) - 1)
        /\ Min(io) < Min(ic) /\ Min(ic) < Max(io) /\ Max(io) < Max(ic) /\ Max(ic) < The(rc)
        /\ OnlyWs(s, Min(ic) + lc, Max(io) - 1)
        /\ OnlyWs(s, Max(ic) + lc, The(rc) - 1)
        /\ SixChildrenInOrder(s, marks, Min(io) + lo, Min(ic) - 1)
        /\ SixChildrenInOrder(s, marks, Max(io) + lo, Max(ic) - 1)

\* the calls of handleSetHtml that have built their xmlString and await the
\* fetch of generateInvoiceHtml; the xmlString of a call never changes later
PageCalls == {i \in 1..Len(calls) : calls[i].caller = "page" /\ calls[i].pc = "fetch"}

\* C4: the xmlString handleSetHtml builds has exactly one Invoices root with
\* exactly two Invoice children, each holding createDate, companyInfo,
\* clientInfo, headerInfo, invoiceInfo, invoiceItems in this order.
C4_TwoInvoicesSixChildren ==
    \A i \in PageCalls : TwoInvoicesDocument(calls[i].xmlString)

C4_Witness ==
    \E i \in PageCalls :
        /\ calls[i].seed = 2
        /\ Cardinality(Occ(calls[i].xmlString, Marks(calls[i].xmlString),
                           OpenTag(K_invoiceItem))) = 10

\* the Invoice elements of s, first to last, each from its < to its last >
InvoiceTexts(s) ==
    LET marks == Marks(s)
        io == Occ(s, marks, OpenTag(K_Invoice))
        ic == Occ(s, marks, CloseTag(K_Invoice))
        nth(S, k) == CHOOSE x \in S : Cardinality({y \in S : y < x}) = k - 1
    IN  IF Cardinality(io) # Cardinality(ic) THEN <<>>
        ELSE [k \in 1..Cardinality(io) |->
                SubSeq(s, nth(io, k), nth(ic, k) + Len(CloseTag(K_Invoice)) - 1)]

\* the id elements of the items generated for seed, in list order
IdElements(seed) ==
    [k \in 1..5 |-> OpenTag(K_id) \o <<"u">> \o Decimal(seed) \o <<"-">> \o Decimal(k)
                      \o CloseTag(K_id)]

\* text holds the id elements of seed's items, each once, in list order, and
\* no other id
HoldsItemsInOrder(text, seed) ==
    LET marks == Occ(text, Marks(text), OpenTag(K_id))
        ids   == IdElements(seed)
        at    == [k \in 1..5 |-> Occ(text, marks, ids[k])]
    IN  /\ Cardinality(marks) = 5
        /\ \A k \in 1..5 : Cardinality(at[k]) = 1
        /\ \A k \in 1..4 : The(at[k]) < The(at[k + 1])

\* the pages of data handleSetHtml generates for one click: one
PagesGenerated(i) == <<calls[i].seed>>

C3_ListBlocksInOrder ==
    (serOp = "listToXml" /\ SerCalled) =>
        LET s == serOut.value
            a == ReadPiece(s, 1, OpenTag(serArg.tagName))
            b == ReadBlocks(s, a, serArg.itemName, serArg.items, 1)
        IN  /\ serOut.type = "normal"
            /\ ReadPiece(s, b, CloseTag(serArg.tagName)) = Len(s) + 1

C3_Witness ==
    /\ serOp = "listToXml" /\ SerCalled
    /\ Len(serArg.items) = 2
    /\ serArg.items[1] # serArg.items[2]
    /\ Len(serArg.items[1]) = 2

\* C6: objectToXml(tagName, obj) is a <tagName> element with one child
\* element per key of obj, in the iteration order of obj, each child being
\* what variableToXml(key, value) returns.
C6_ObjectChildrenInOrder ==
    (serOp = "objectToXml" /\ SerCalled) =>
        LET s == serOut.value
            children == [j \in 1..Len(serArg.obj) |->
                            variableToXml(serArg.obj[j].key, serArg.obj[j].value).value]
        IN  /\ serOut.type = "normal"
            /\ ReadRecord(s, 1, serArg.tagName, children, WS \cup {","}) = Len(s) + 1

C6_Witness ==
    /\ serOp = "objectToXml" /\ SerCalled
    /\ Len(serArg.obj) = 2
    /\ serArg.obj[1].key = <<"i", "d">>
    /\ serArg.obj[1].value # serArg.obj[2].value

\* C7: for a value v whose text form holds no reserved XML character,
\* variableToXml("field", v) is exactly <field>, the text form of v, </field>,
\* and the text read back between the tags is the text form of v.
C7_ScalarRoundTrip ==
    (serOp = "variableToXml" /\ SerCalled /\ serArg.name = field
       /\ ~HasReserved(serArg.value)) =>
        /\ serOut.type = "normal"
        /\ serOut.value = <<"<", "f", "i", "e", "l", "d", ">">> \o TextForm(serArg.value)
                            \o <<"<", "/", "f", "i", "e", "l", "d", ">">>
        /\ TextContent(serOut.value) = TextForm(serArg.value)

C7_Witness ==
    /\ serOp = "variableToXml" /\ SerCalled /\ serArg.name = field
    /\ serArg.value = Num(-3)
    /\ TextContent(serOut.value) = <<"-", "3">>

\* C8: a value containing & or < is written by variableToXml, objectToXml and
\* listToXml with its text form character for character, nothing escaped.
C8_ReservedCharactersLiteral ==
    /\ (serOp = "variableToXml" /\ SerCalled /\ HasReserved(serArg.value)) =>
          serOut.value = OpenTag(serArg.name) \o TextForm(serArg.value)
                           \o CloseTag(serArg.name)
    /\ (serOp = "objectToXml" /\ SerCalled
          /\ \E j \in 1..Len(serArg.obj) : HasReserved(serArg.obj[j].value)) =>
          ReadRecord(serOut.value, 1, serArg.tagName, LiteralChildren(serArg.obj),
                     WS \cup {","}) = Len(serOut.value) + 1
    /\ (serOp = "listToXml" /\ SerCalled
          /\ \E k \in 1..Len(serArg.items) :
               \E j \in 1..Len(serArg.items[k]) : HasReserved(serArg.items[k][j].value)) =>
          LET s == serOut.value
              a == ReadPiece(s, 1, OpenTag(serArg.tagName))
              b == ReadBlocks(s, a, serArg.itemName, serArg.items, 1)
          IN  ReadPiece(s, b, CloseTag(serArg.tagName)) = Len(s) + 1

C8_Witness ==
    /\ serOp = "objectToXml" /\ SerCalled
    /\ Len(serArg.obj) = 2
    /\ serArg.obj[1].value = Str(<<"a", "&">>)
    /\ serArg.obj[2].value = Str(<<"<", "b">>)
    /\ \E p \in 1..Len(serOut.value) : StartsAt(serOut.value, p, <<">", "<", "b", "<", "/">>)

\* C9: variableToXml, objectToXml and listToXml return a string and raise no
\* error, for every input of the runs: empty records, empty lists and values
\* that give malformed markup included.
C9_SerializerNeverFails ==
    SerCalled => serOut.type = "normal" /\ serOut.error = "none"

C9_Witness ==
    /\ serOp = "variableToXml" /\ SerCalled
    /\ serArg.value = Str(<<"<", "b">>)

(***************************************************************************)
(* Claims about calls that overlap                                         *)
(***************************************************************************)
InFlight(i) == calls[i].pc # "done"

\* C11 as stated: at most one call of generateInvoiceHtml is in flight at any
\* time; a second call is not started while an earlier one awaits its fetch.
C11_AtMostOneInFlight ==
    Cardinality({i \in 1..Len(calls) : InFlight(i)}) <= 1

\* C11 amended: calls of generateInvoiceHtml may overlap at their awaits, and
\* only there: every step of a run advances at most one call and leaves every
\* other call as it was, no call is ever removed, and once response.text() has
\* resolved the rest of the call, transformXml included, is one step that ends
\* the call.
C11_CallsOverlapOnlyAtAwaits ==
    [][/\ Len(calls') >= Len(calls)
       /\ \A i \in 1..Len(calls) :
             calls'[i] # calls[i] =>
                /\ \A j \in 1..Len(calls) : j # i => calls'[j] = calls[j]
                /\ calls[i].pc # "done"
                /\ calls[i].pc = "text" => calls'[i].pc = "done"]_vars

C11_Witness ==
    \E i, j \in 1..Len(calls) :
        /\ i < j
        /\ calls[i].pc = "fetch"
        /\ Returned(j)
        /\ calls[i].xsltPath = calls[j].xsltPath

\* C12: when the fetch and the reading of the body settle, every call of
\* generateInvoiceHtml completes, returning markup or raising; and a call whose
\* fetch has not been answered has not completed and still awaits that fetch:
\* nothing but the answer (no timeout, no retry, no cancellation) moves it on.
C12_CompletesWhenAwaitsSettle ==
    /\ \A i \in 1..MaxCalls :
          (Len(calls) >= i) ~> (Len(calls) >= i /\ Done(i)
                                  /\ calls[i].outcome.type \in {"normal", "throw"})
    /\ [](\A i \in 1..Len(calls) :
             fetchLog[i].answered = "pending" => calls[i].pc = "fetch")
    /\ [][\A i \in 1..Len(calls) :
             (calls[i].pc = "fetch" /\ calls'[i].pc # "fetch") =>
                 (fetchLog[i].answered = "pending" /\ fetchLog'[i].answered # "pending")]_vars

C12_Witness ==
    \E i, j \in 1..Len(calls) :
        /\ Done(i) /\ calls[i].outcome = Throw("text")
        /\ Returned(j) /\ ~calls[j].response.ok
        /\ fetchLog[i].answered = "resolved"

\* C13: XSLT templates are cached for repeat use: once a generation with a
\* stylesheet path has succeeded, a generation started later with the same
\* path loads nothing, that is, it issues no fetch.
C13_TemplateCachedForRepeatUse ==
    [][(/\ Len(calls') = Len(calls) + 1
        /\ \E i \in 1..Len(calls) :
              Returned(i) /\ calls[i].xsltPath = calls'[Len(calls')].xsltPath)
          => Len(fetchLog') = Len(fetchLog)]_vars

(***************************************************************************)
(* Claims about the request examples                                       *)
(***************************************************************************)
\* a step in which a click on Cancel Request cancels a source
UserCancels == \E k \in 1..Len(requests) :
                  requests[k].cancelled = "none" /\ requests'[k].cancelled = "user"

\* C14: in the Axios example, a Cancel Request click made while the most
\* recently started request is in flight cancels that request: its catch
\* block is queued and then runs, handleError reports REQUEST_CANCELLED, the
\* success update of posts is not applied, and finally sets loading to false.
C14_CancelRunsCatchOfLatestRequest ==
    /\ [][(example = "axios" /\ UserCancels /\ requests # <<>>
             /\ requests[Len(requests)].pc \in InFlightPcs) =>
            /\ requests'[Len(requests)].cancelled = "user"
            /\ requests'[Len(requests)].pc = "catch"]_vars
    /\ [][\A r \in 1..Len(requests) :
            (example = "axios" /\ requests[r].pc = "catch" /\ requests'[r].pc # "catch") =>
               /\ requests'[r].pc = "done"
               /\ requests'[r].toast = "REQUEST_CANCELLED"
               /\ ~requests'[r].applied
               /\ posts' = posts
               /\ mounted => ~loading']_vars
    /\ \A r \in 1..MaxRequests :
          (example = "axios" /\ Len(requests) >= r /\ requests[r].pc = "catch")
             ~> (/\ Len(requests) >= r
                 /\ requests[r].pc = "done"
                 /\ requests[r].toast = "REQUEST_CANCELLED")

C14_Witness ==
    /\ example = "axios"
    /\ Len(requests) = 3
    /\ requests[2].op = "deleteTodo" /\ requests[2].pc = "request"
    /\ requests[3].op = "patchTodo" /\ requests[3].cancelled = "user"
    /\ requests[3].pc = "done" /\ requests[3].toast = "REQUEST_CANCELLED"
    /\ ~loading
    /\ posts = PostsOnServer

\* C15: once the example component has unmounted, no request it started is
\* still in flight: the cleanup has cancelled every request that was pending,
\* also when several requests overlapped.
C15_UnmountCancelsEveryRequest ==
    (~mounted /\ requests # <<>>) =>
        \A r \in 1..Len(requests) : requests[r].pc \notin InFlightPcs

\* C16: in the Axios example, after a request has been cancelled with Cancel
\* Request and the cancellation has been reported, a new request is issued in
\* the end also when the user does nothing more: in every run a later request
\* follows (runs in which the component unmounts aside).  Runs that stop at
\* the bound on requests are left out.
C16_CancelledRequestIsRetried ==
    \A r \in 1..(MaxRequests - 1) :
        (/\ example = "axios" /\ mounted
         /\ Len(requests) = r
         /\ requests[r].cancelled = "user" /\ requests[r].toast = "REQUEST_CANCELLED")
          ~> (~mounted \/ Len(requests) > r)

(***************************************************************************)
(* Claims about the steps of transformXml                                  *)
(***************************************************************************)
\* transformXml was entered by call i
Entered(i) == Done(i) /\ fetchLog[i].fault \notin {"fetch", "text"}

\* the platform calls of one transformXml call with the given entries of
\* params, written out in the order the claim gives
StepsInOrder(entries) ==
    <<[op |-> "parseFromString", of |-> "xsltString", key |-> <<>>],
      [op |-> "parseFromString", of |-> "xmlString", key |-> <<>>],
      [op |-> "importStylesheet", of |-> "xsltDoc", key |-> <<>>]>>
    \o [j \in 1..Len(entries) |->
          [op |-> "setParameter", of |-> "value", key |-> entries[j].key]]
    \o <<[op |-> "setParameter", of |-> "value",
          key |-> <<"c", "r", "e", "a", "t", "e", "-", "d", "a", "t", "e">>],
         [op |-> "transformToDocument", of |-> "xmlDoc", key |-> <<>>],
         [op |-> "serializeToString", of |-> "resultDocument", key |-> <<>>]>>

\* C17: the platform calls of a transformXml call are, in this order: the two
\* parses, importStylesheet, one setParameter per entry of params, the
\* setParameter of create-date, transformToDocument, serializeToString; a call
\* that raises stops at the step that raised, a call that returns has made
\* them all, and no setParameter follows transformToDocument.
C17_StepsOfTransformInOrder ==
    \A i \in 1..Len(calls) :
        Entered(i) =>
            LET t == calls[i].trace
                e == StepsInOrder(calls[i].params.entries)
            IN  /\ Len(t) >= 3 /\ Len(t) <= Len(e)
                /\ t = SubSeq(e, 1, Len(t))
                /\ Returned(i) => t = e
                /\ fetchLog[i].fault # "none" => t[Len(t)].op = fetchLog[i].fault
                /\ \A m, n \in 1..Len(t) :
                      (m < n /\ t[m].op = "transformToDocument") => t[n].op # "setParameter"

C17_Witness ==
    \E i, j \in 1..Len(calls) :
        /\ Returned(i) /\ Len(calls[i].trace) = 8
        /\ calls[i].trace[5].key = K_lang
        /\ Entered(j) /\ fetchLog[j].fault = "transformToDocument"
        /\ Len(calls[j].trace) = 5

\* C18: nothing stands between the fetch and the transformation: whatever the
\* status of the response, its body is parsed as the stylesheet, and with a
\* parser-error document too importStylesheet and transformToDocument are
\* called; a call ends raising only when the network or the platform raised.
C18_NoValidationGate ==
    \A i \in 1..Len(calls) :
        (Done(i) /\ fetchLog[i].answered = "resolved" /\ fetchLog[i].fault # "text") =>
            LET t == calls[i].trace
            IN  /\ Len(t) >= 3
                /\ t[1].op = "parseFromString" /\ t[3].op = "importStylesheet"
                /\ fetchLog[i].fault # "importStylesheet" =>
                      \E n \in 1..Len(t) : t[n].op = "transformToDocument"
                /\ fetchLog[i].fault = "none" =>
                      /\ Returned(i)
                      /\ calls[i].outcome.value[1].xslt.source = fetchLog[i].served
                /\ calls[i].outcome.type = "throw" =>
                      calls[i].outcome.error \in
                          {"importStylesheet", "transformToDocument", "serializeToString"}

C18_Witness ==
    \E i \in 1..Len(calls) :
        /\ Returned(i) /\ Applied(i)
        /\ ~calls[i].response.ok
        /\ calls[i].outcome.value[1].xslt.source = <<"<", "h", "1", ">", "4", "0", "4">>
        /\ calls[i].outcome.value[1].xslt.parsererror
        /\ ~calls[i].outcome.value[1].xml.parsererror

(***************************************************************************)
(* Claims about what stands between child elements                         *)
(***************************************************************************)
RECURSIVE ReadBlocksApart(_, _, _, _, _, _)
\* the position after the item blocks k.. of items read from p, the children
\* of each block separated by characters of seps only; 0 when the markup does
\* not read so
ReadBlocksApart(s, p, itemName, items, k, seps) ==
    IF p = 0 THEN 0
    ELSE IF k > Len(items) THEN p
    ELSE ReadBlocksApart(s, ReadRecord(s, p, itemName, LiteralChildren(items[k]), seps),
                         itemName, items, k + 1, seps)

\* C19: between its wrapping tags the markup of objectToXml, and of each item
\* block of listToXml, holds the child elements and whitespace only: nothing
\* is put between one child element and the next.
C19_NoSeparatorBetweenChildren ==
    /\ (serOp = "objectToXml" /\ SerCalled) =>
          ReadRecord(serOut.value, 1, serArg.tagName, LiteralChildren(serArg.obj), WS)
            = Len(serOut.value) + 1
    /\ (serOp = "listToXml" /\ SerCalled) =>
          LET s == serOut.value
              a == ReadPiece(s, 1, OpenTag(serArg.tagName))
              b == ReadBlocksApart(s, a, serArg.itemName, serArg.items, 1, WS)
          IN  ReadPiece(s, b, CloseTag(serArg.tagName)) = Len(s) + 1

(***************************************************************************)
(* Claims about what calls share                                           *)
(***************************************************************************)
KeysOf(ps) == {ps[n].key : n \in 1..Len(ps)}

\* C20: the parameters in force when a call applies its stylesheet are that
\* call's own params and create-date and nothing else, each name once, the
\* values the call's own; two calls with the same params at the same instant
\* apply the same parameters, whatever other calls ran before them.
C20_ParametersAreTheCallsOwn ==
    /\ \A i \in 1..Len(calls) :
          Applied(i) =>
              LET own == calls[i].params.entries
                  ap  == calls[i].applied
              IN  /\ KeysOf(ap) = KeysOf(own)
                                    \cup {<<"c", "r", "e", "a", "t", "e", "-", "d", "a", "t", "e">>}
                  /\ Cardinality(KeysOf(ap)) = Len(ap)
                  /\ \A n \in 1..Len(ap) :
                        IF ap[n].key = <<"c", "r", "e", "a", "t", "e", "-", "d", "a", "t", "e">>
                        THEN ap[n].value = Str(<<"D", "a", "y", " ">> \o Decimal(fetchLog[i].at))
                        ELSE ap[n].value \in ValuesOf(own, ap[n].key)
    /\ \A i, j \in 1..Len(calls) :
          (/\ Applied(i) /\ Applied(j)
           /\ calls[i].params = calls[j].params
           /\ fetchLog[i].at = fetchLog[j].at) => calls[i].applied = calls[j].applied

C20_Witness ==
    \E i, j \in 1..Len(calls) :
        /\ i < j
        /\ Returned(i) /\ Returned(j)
        /\ <<"l", "a", "n", "g">> \in KeysOf(calls[i].applied)
        /\ ~calls[j].params.defined
        /\ Len(calls[j].applied) = 1

(***************************************************************************)
(* Claims about the preview page: failures, overlapping generations, the   *)
(* Print button                                                            *)
(***************************************************************************)
\* call i of the page ends in this step with a rejection
FailsNow(i) ==
    /\ i \in 1..Len(calls)
    /\ calls[i].caller = "page"
    /\ calls[i].pc # "done"
    /\ calls'[i].pc = "done"
    /\ calls'[i].outcome.type = "throw"

\* C21: in the invoice preview page, the step in which a call of
\* generateInvoiceHtml made by handleSetHtml fails leaves the html state as
\* it was, and with it what is displayed and whether Print is disabled.
C21_FailureLeavesHtmlUnchanged ==
    [][\A i \in 1..MaxCalls :
          FailsNow(i) => /\ html' = html
                         /\ PrintDisabled' = PrintDisabled]_vars

\* a generation has failed in the transformation after another one had put
\* its markup on the page, and the markup is still there
C21_Witness ==
    \E i, j \in 1..Len(calls) :
        /\ calls[i].caller = "page" /\ Returned(i)
        /\ calls[j].caller = "page" /\ calls[j].pc = "done" /\ calls[j].outcome.type = "throw"
        /\ fetchLog[j].fault = "transformToDocument"
        /\ html = calls[i].outcome.value
        /\ ~PrintDisabled

\* C22: in the invoice preview page, once every generation started by a
\* Generate HTML click has completed successfully, the displayed html is the
\* result of the click made last, whatever the order in which the fetches of
\* overlapping generations resolved.
C22_LastClickIsDisplayed ==
    (/\ calls # <<>>
     /\ \A i \in 1..Len(calls) : calls[i].caller = "page" /\ Returned(i))
        => html = calls[Len(calls)].outcome.value

(***************************************************************************)
(* Claims about the loading state of the request examples                  *)
(***************************************************************************)
\* C23: in the Axios and Fetch examples, while the component is mounted and a
\* request it started is still in flight, loading is true, also when row
\* buttons were clicked while another request was pending.
C23_LoadingWhileInFlight ==
    (/\ mounted
     /\ \E r \in 1..Len(requests) : requests[r].pc \in InFlightPcs)
        => loading

(***************************************************************************)
(* Claims about useAbortableMutation                                       *)
(***************************************************************************)
\* the requests whose abort function is called in this step
AbortCalled ==
    {r \in 1..Len(requests) : requests'[r].reasons # requests[r].reasons
                                 \/ requests'[r].abortedBy # requests[r].abortedBy}

\* C25: a call of useAbortableMutation's abort invokes the abort function of
\* the request most recently started by runMutation, with the reason it was
\* given or "Aborted by user" when it was given none, and of no other
\* request; before any runMutation call it changes nothing.
C25_AbortHitsLatestRunMutation ==
    [][abortLog' # abortLog =>
         /\ AbortCalled \subseteq {Len(requests)}
         /\ requests = <<>> => requests' = requests
         /\ requests # <<>> =>
               LET r == Len(requests)
                   reason == IF abortLog'.given = NoReason THEN DefaultReason
                             ELSE abortLog'.given
               IN  /\ requests' = [requests EXCEPT
                                     ![r].reasons = @ \cup {reason},
                                     ![r].abortedBy =
                                        IF requests[r].pc = "request" /\ @ = "none"
                                        THEN "caller" ELSE @]
                   /\ abortLog'.target = r]_vars

\* abort() without a reason has reached the newest of two requests while the
\* older one is still awaited and untouched
C25_Witness ==
    /\ Len(requests) >= 2
    /\ abortLog = [given |-> NoReason, target |-> Len(requests)]
    /\ requests[Len(requests)].reasons = {DefaultReason}
    /\ requests[1].pc = "request" /\ requests[1].reasons = {}

(***************************************************************************)
(* Claims about the query examples                                         *)
(***************************************************************************)
\* C24: in the React Query and RTK Query examples a request is aborted while
\* it is in flight only by a click on Cancel Request or by the unmount of
\* the component, never by a change of the error state of the query or of
\* a mutation.
C24_AbortOnlyByUserOrUnmount ==
    \A r \in 1..Len(requests) : requests[r].abortedBy \in {"none", "user", "unmount"}

(***************************************************************************)
(* public/test.xslt applied to a document.  The XSLT processor is the      *)
(* browser's: it reads the XML text as a tree of elements, and the         *)
(* template walks that tree with child steps.  The documents here hold     *)
(* elements and text only, and no element holds an element of its own      *)
(* name.                                                                   *)
(***************************************************************************)
\* the first position from p on that holds c, Len(s) + 1 when there is none
FirstAt(s, p, c) ==
    CHOOSE q \in p..(Len(s) + 1) :
        /\ q = Len(s) + 1 \/ s[q] = c
        /\ \A i \in p..(q - 1) : s[i] # c

RECURSIVE ChildElements(_, _, _, _)
\* the child elements of the content that runs from position a to position b
\* of s, in document order: the name of each and where its own content runs
ChildElements(s, marks, a, b) ==
    LET starts == {q \in marks : a <= q /\ q <= b}
    IN  IF starts = {} THEN <<>>
        ELSE LET open   == Min(starts)
                 gt     == FirstAt(s, open, ">")
                 name   == SubSeq(s, open + 1, gt - 1)
                 closes == {q \in starts : q > gt /\ StartsAt(s, q, CloseTag(name))}
             IN  IF closes = {} THEN <<>>
                 ELSE LET close == Min(closes)
                      IN  <<[name |-> name, from |-> gt + 1, to |-> close - 1]>>
                            \o ChildElements(s, marks, close + Len(CloseTag(name)), b)

\* the elements of els with the given name, in order
Named(els, name) ==
    LET idx == {j \in 1..Len(els) : els[j].name = name}
    IN  [k \in 1..Cardinality(idx) |->
            els[CHOOSE j \in idx : Cardinality({i \in idx : i < j}) = k - 1]]

RECURSIVE NodeSet(_, _, _, _)
\* the nodes a path of child steps selects from the context nodes, in
\* document order
NodeSet(s, marks, context, path) ==
    IF path = <<>> THEN context
    ELSE LET step == [j \in 1..Len(context) |->
                         Named(ChildElements(s, marks, context[j].from, context[j].to),
                               path[1])]
             RECURSIVE Flat(_)
             Flat(j) == IF j > Len(step) THEN <<>> ELSE step[j] \o Flat(j + 1)
         IN  NodeSet(s, marks, Flat(1), Tail(path))

\* the document node
Root(s) == <<[name |-> <<>>, from |-> 1, to |-> Len(s)]>>

\* xsl:value-of select="path": the text of the first node the path selects,
\* nothing when it selects none
ValueOf(s, marks, node, path) ==
    LET nodes == NodeSet(s, marks, <<node>>, path)
    IN  IF nodes = <<>> THEN <<>> ELSE SubSeq(s, nodes[1].from, nodes[1].to)

\* the tr elements of xsl:for-each select="invoiceItems/invoiceItem" in the
\* Invoice: position(), name, quantity, price of each item in document order
Rows(s, marks, invoice) ==
    LET items == NodeSet(s, marks, <<invoice>>, <<K_invoiceItems, K_invoiceItem>>)
    IN  [k \in 1..Len(items) |->
            [position |-> k,
             name     |-> ValueOf(s, marks, items[k], <<K_name>>),
             quantity |-> ValueOf(s, marks, items[k], <<K_quantity>>),
             price    |-> ValueOf(s, marks, items[k], <<K_price>>)]]

\* xsl:template match="/Invoices" with xsl:for-each select="Invoice": one
\* html element per Invoice, with its table rows and its page number; a
\* document with a parser error has no Invoices root and gives nothing
applyTemplates(s) ==
    LET marks    == Marks(s)
        invoices == NodeSet(s, marks, Root(s), <<K_Invoices, K_Invoice>>)
    IN  IF parseFromString(s).parsererror THEN <<>>
        ELSE [n \in 1..Len(invoices) |->
                [page |-> n, rows |-> Rows(s, marks, invoices[n])]]

\* the line items of the drawn invoices
LineItems ==
    {<<Entry(K_name, n), Entry(K_quantity, q), Entry(K_price, pr)>> :
        n \in {Str(<<"A">>), Str(<<"B", " ", "b">>)},
        q \in {Num(1), Num(10)},
        pr \in {Str(getFormattedCurrency(5)), Str(getFormattedCurrency(1200))}}

\* the documents the stylesheet is applied to: the documents of the preview
\* page (seed and instant of the click), and invoices that hold nothing but
\* a list of line items (seed 0)
SheetInputs ==
    {[seed |-> sd, at |-> t, items |-> generateInvoiceList(InvoiceItemCount, sd)] :
        sd \in Seeds, t \in 0..MaxClock}
      \cup {[seed |-> 0, at |-> 0, items |-> l] : l \in Lists(LineItems, MaxItems)}

\* the XML text of an input
DocumentOf(arg) ==
    IF arg.seed = 0
    THEN OpenTag(K_Invoices) \o OpenTag(K_Invoice)
           \o listToXml(K_invoiceItems, K_invoiceItem, arg.items).value
           \o CloseTag(K_Invoice) \o CloseTag(K_Invoices)
    ELSE xmlString(arg.seed, getNow(arg.at))

SheetInit ==
    /\ serArg \in SheetInputs
    /\ serOp = "applyTemplates"
    /\ serOut = NotCalled
    /\ clock = 0
    /\ sheets = InitialSheets
    /\ calls = <<>>
    /\ fetchLog = <<>>
    /\ html = <<>>
    /\ NoPrint
    /\ NoQuery
    /\ NoExample

\* the stylesheet is applied to the document
ApplyTemplates ==
    /\ serOp = "applyTemplates"
    /\ serOut = NotCalled
    /\ serOut' = Normal(applyTemplates(DocumentOf(serArg)))
    /\ UNCHANGED <<serOp, serArg, pipeVars, exVars, printVars, queryVars>>

SheetNext == ApplyTemplates

SheetSpec == SheetInit /\ [][SheetNext]_vars

(***************************************************************************)
(* Claims about the stylesheet and the document of the preview page        *)
(***************************************************************************)
\* the value of key in the entries of an item
FieldOf(item, key) == The(ValuesOf(item, key))

\* C26: for an invoice with n line items the stylesheet renders exactly n
\* table rows, the k-th of them showing k and the name, quantity and price
\* of the k-th item of the list; the preview invoice of 5 items gets 5 rows.
C26_OneRowPerItemInOrder ==
    (serOp = "applyTemplates" /\ serOut # NotCalled) =>
        /\ serOut.value # <<>>
        /\ \A n \in 1..Len(serOut.value) :
              LET rows == serOut.value[n].rows
              IN  /\ Len(rows) = Len(serArg.items)
                  /\ \A k \in 1..Len(rows) :
                        rows[k] = [position |-> k,
                                   name     |-> StringOf(FieldOf(serArg.items[k], K_name)),
                                   quantity |-> StringOf(FieldOf(serArg.items[k], K_quantity)),
                                   price    |-> StringOf(FieldOf(serArg.items[k], K_price))]

\* the preview document has been rendered: two pages of five rows each
C26_Witness ==
    /\ serOp = "applyTemplates" /\ serOut # NotCalled
    /\ serArg.seed = 2
    /\ Len(serOut.value) = 2
    /\ Len(serOut.value[2].rows) = 5
    /\ serOut.value[2].rows[5].position = 5
    /\ serOut.value[2].rows[5].quantity = <<"5">>

\* the paths the template selects with an Invoice as the context node
InvoicePaths ==
    {<<K_createDate>>,
     <<K_headerInfo, K_logo>>, <<K_headerInfo, K_companyName>>, <<K_headerInfo, K_address>>,
     <<K_headerInfo, K_website>>, <<K_headerInfo, K_email>>, <<K_headerInfo, K_phone>>,
     <<K_clientInfo, K_name>>, <<K_clientInfo, K_address>>, <<K_clientInfo, K_phone>>,
     <<K_clientInfo, K_email>>, <<K_clientInfo, K_clientState>>,
     <<K_clientInfo, K_clientCity>>, <<K_clientInfo, K_clientZip>>,
     <<K_invoiceInfo, K_invoiceNumber>>, <<K_invoiceInfo, K_invoiceDate>>,
     <<K_invoiceInfo, K_dueDate>>, <<K_invoiceInfo, K_terms>>,
     <<K_invoiceItems, K_invoiceItem>>}

\* the paths the template selects with an invoiceItem as the context node
ItemPaths ==
    {<<K_name>>, <<K_quantity>>, <<K_price>>, <<K_basePrice>>, <<K_total>>, <<K_totalNumber>>}

\* every Invoice of the document s holds a node for every path of the
\* template, and so does every one of its invoiceItem elements
AllPathsPresent(s) ==
    LET marks    == Marks(s)
        invoices == NodeSet(s, marks, Root(s), <<K_Invoices, K_Invoice>>)
    IN  /\ invoices # <<>>
        /\ \A n \in 1..Len(invoices) :
              /\ \A path \in InvoicePaths : NodeSet(s, marks, <<invoices[n]>>, path) # <<>>
              /\ LET items == NodeSet(s, marks, <<invoices[n]>>, <<K_invoiceItems, K_invoiceItem>>)
                 IN  \A k \in 1..Len(items), path \in ItemPaths :
                        NodeSet(s, marks, <<items[k]>>, path) # <<>>

\* C27: every element path that test.xslt selects inside an Invoice, and
\* inside an invoiceItem, is present in every Invoice of the xmlString that
\* handleSetHtml assembles.
C27_EverySelectedPathPresent ==
    (serOp = "applyTemplates" /\ serArg.seed # 0) =>
        AllPathsPresent(DocumentOf(serArg))

\* the stylesheet has been applied to a preview document of two invoices
\* with five items each
C27_Witness ==
    /\ serOp = "applyTemplates" /\ serOut # NotCalled
    /\ serArg.seed = 1 /\ serArg.at = 1
    /\ LET s == DocumentOf(serArg)
       IN  Len(NodeSet(s, Marks(s), Root(s),
                       <<K_Invoices, K_Invoice, K_invoiceItems, K_invoiceItem, K_totalNumber>>)) = 10

\* a generation of the page has returned markup
Generated(i) == calls[i].caller = "page" /\ Returned(i) /\ calls[i].outcome.value # <<>>

\* C28: the Print button of the preview page is enabled only when a
\* generation has returned non-empty markup, which is the markup shown, and
\* no print is in progress: it is disabled as long as no generation has
\* succeeded, and from onBeforePrint until onAfterPrint.
C28_PrintEnabledOnlyWhenReady ==
    /\ ~PrintDisabled =>
          /\ printJob # "printing"
          /\ \E i \in 1..Len(calls) : Generated(i) /\ calls[i].outcome.value = html
    /\ printJob = "printing" => PrintDisabled
    /\ (\A i \in 1..Len(calls) : ~Generated(i)) => PrintDisabled

\* markup is shown and a print is between onBeforePrint and onAfterPrint
C28_Witness ==
    /\ printJob = "printing"
    /\ html # <<>>
    /\ \E i \in 1..Len(calls) : Generated(i)
====
